---- MODULE Spec2Model ----
(***************************************************************************)
(* e2e-wrapper: the condition-polling engine (WaitCondition), the chain    *)
(* of conditions (WaitBuilder) and the wrapper facade (E2EWrapper.wait).   *)
(*                                                                         *)
(* Time is in milliseconds.  A running execute() is suspended only at its  *)
(* await points: a driver call in flight or a setTimeout sleep.  Every     *)
(* action below is the synchronous code between two such points.           *)
(***************************************************************************)
EXTENDS Integers, Sequences, FiniteSets, TLC

VARIABLES
    driver,     \* the backend's answers for the element: visible, enabled, exists, failing
    builders,   \* WaitBuilder objects: b -> [created, wrapper, conditions]
    pc,         \* b -> where the execute() call of builder b stands
    idx,        \* b -> position of the for..of iterator over this.conditions
    elapsed,    \* b -> Date.now() - startTime of the condition being polled
    timer,      \* b -> ms left of the pending driver call or sleep
    calls,      \* b -> per condition, the number of predicate calls issued
    sleeps,     \* b -> the number of interval sleeps the polled condition has started
    threw,      \* b -> whether a predicate call of the polled condition has thrown
    slow,       \* b -> whether a predicate call of the polled condition took time
    results,    \* b -> per condition, what its execute() returned
    outcome,    \* b -> how the promise of WaitBuilder.execute() settled
    trace,      \* b -> the driver calls the latest poll of this iteration issued
    caught,     \* b -> whether the polled condition has caught an exception itself
    scroll,     \* the ScrollBuilder: its options and where its execute() stands
    estimate,   \* the latest isSubstantiallyVisible call on the Detox driver: threshold and answer
    described,  \* b -> the list the latest getConditionDescriptions() call returned
    heap,       \* object identity: the arrays and option objects the builders of a wrapper refer to
    config,     \* E2EWrapper.config: the configured framework and the stored drivers
    env,        \* process.env.E2E_FRAMEWORK, and the calls of configureFromEnvironment
    creation,   \* the last E2EWrapper.create call: its options and what it returned or threw
    iter,       \* per builder, the array the for..of loop of a running execute() iterates
    keyboard    \* DetoxElementDriver.dismissKeyboard: where the call stands, and the device

vars == <<driver, builders, pc, idx, elapsed, timer, calls, sleeps, threw, slow,
          results, outcome, trace, caught, scroll,
          estimate,
          described,
          heap,
          config,
          env,
          creation,
          iter,
          keyboard>>

---------------------------------------------------------------------------
(* Bounds of the model *)

MaxConds == 3        \* longest chain
MaxPair == 2         \* longest chain when two builders are compared
MaxTimeout == 4      \* largest explicit timeout, ms
MaxInterval == 2     \* largest explicit interval, ms
MaxProbeDur == 1     \* longest driver call, ms

(* Program constants: WaitCondition's default options *)
DefaultTimeout == 5000
DefaultInterval == 100
DefaultRetries == 3

AllBuilders == {1, 2}
Wrappers == {"w1", "w2"}
NewWrapper == "copy"

Kinds == {"Visible", "NotVisible", "Enabled", "Exists", "Custom"}

---------------------------------------------------------------------------
(* WaitOptions *)

NoOptions == [f \in {} |-> 0]

DefaultOptions ==
    [timeout |-> DefaultTimeout, interval |-> DefaultInterval, retries |-> DefaultRetries]

\* The merged options with the loop's budget cut down to retries polls
MergeOptionsRetriesBound(options) ==
    LET merged == [f \in DOMAIN DefaultOptions |->
                      IF f \in DOMAIN options THEN options[f] ELSE DefaultOptions[f]]
        budget == merged.retries * merged.interval
    IN  [merged EXCEPT !.timeout = IF budget < @ THEN budget ELSE @]

\* this.options = { timeout: 5000, interval: 100, retries: 3, ...options }
MergeOptions(options) ==
    [f \in DOMAIN DefaultOptions |->
        IF f \in DOMAIN options THEN options[f] ELSE DefaultOptions[f]]

\* CustomConditionOptions of a condition that is not a CustomCondition
NoConditionOptions == [f \in {} |-> ""]

\* new XCondition(selector, driver, options), or for the Custom kind
\* new CustomCondition(selector, driver, conditionOptions, options); serial is
\* bookkeeping: the how-manieth push onto the builder's list made this
\* condition
NewCondition(kind, conditionOptions, options, serial) ==
    [kind |-> kind, conditionOptions |-> conditionOptions,
     options |-> MergeOptions(options), serial |-> serial]

---------------------------------------------------------------------------
(* The driver *)

DriverStates ==
    [visible : BOOLEAN, enabled : BOOLEAN, exists : BOOLEAN, failing : BOOLEAN]

\* Values a driver call can answer with: null, a string, a boolean
Null == [type |-> "null"]

Str(s) == [type |-> "string", value |-> s]

Bool(v) == [type |-> "boolean", value |-> v]

\* Whether a driver call rejects: the whole backend fails, or this call does
Throws(d, call) == d.failing \/ ("throws" \in DOMAIN d /\ call \in d.throws)

\* driver.getAttribute / getText / getProperty: the backend's answer; a
\* backend that was told nothing answers null, '' and null
GetAttribute(d, name) ==
    IF "attributes" \in DOMAIN d THEN d.attributes[name] ELSE Null

GetText(d) == IF "text" \in DOMAIN d THEN d.text ELSE ""

GetProperty(d, name) ==
    IF "properties" \in DOMAIN d THEN d.properties[name] ELSE Null

\* A caller's predicate (element, driver) => boolean, known by its name
CustomPredicate(name, d) == name = "alwaysTrue"

\* classAttribute.split(/\s+/): the pieces between the runs of whitespace,
\* an empty piece before a leading and after a trailing run included
RECURSIVE SplitFrom(_, _, _, _)
SplitFrom(s, i, piece, inRun) ==
    IF i > Len(s) THEN <<piece>>
    ELSE IF SubSeq(s, i, i) = " "
         THEN IF inRun THEN SplitFrom(s, i + 1, piece, TRUE)
              ELSE <<piece>> \o SplitFrom(s, i + 1, "", TRUE)
         ELSE SplitFrom(s, i + 1, piece \o SubSeq(s, i, i), FALSE)

Split(s) == SplitFrom(s, 1, "", FALSE)

\* text.includes(expectedText): case-sensitive substring
Includes(text, expected) ==
    \E i \in 1..(Len(text) - Len(expected) + 1) :
        SubSeq(text, i, i + Len(expected) - 1) = expected

\* if (!classAttribute) return false; classNames.includes(expectedClassName)
ClassMatches(classAttribute, expectedClassName) ==
    IF classAttribute = Null \/ classAttribute = Str("") THEN FALSE
    ELSE LET classNames == Split(classAttribute.value) IN
         \E i \in DOMAIN classNames : classNames[i] = expectedClassName

AttributeMatchesTruthy(attr, attributeValue) ==
    IF "value" \notin DOMAIN attr
    THEN attributeValue # Null /\ attributeValue # Str("")
    ELSE attributeValue = Str(attr.value)

\* attr.value === undefined ? attributeValue !== null : attributeValue === attr.value
AttributeMatches(attr, attributeValue) ==
    IF "value" \notin DOMAIN attr
    THEN attributeValue # Null
    ELSE attributeValue = Str(attr.value)

\* propertyValue === prop.value
PropertyMatches(prop, propertyValue) == propertyValue = prop.value

ElementNeverMissing(exists) == FALSE

\* if (!exists) return false
ElementMissing(exists) == ~exists

\* The fields of CustomConditionOptions that hold a string
StringFields == {"hasClassName", "hasText"}

\* if (this.conditionOptions.hasX): a field is taken when it is present and
\* truthy; an object or a function is always truthy, the empty string is not
Populated(conditionOptions, field) ==
    /\ field \in DOMAIN conditionOptions
    /\ field \in StringFields => conditionOptions[field] # ""

DispatchAttributeFirst(conditionOptions) ==
    IF Populated(conditionOptions, "hasAttribute") THEN "hasAttribute"
    ELSE IF Populated(conditionOptions, "hasClassName") THEN "hasClassName"
    ELSE IF Populated(conditionOptions, "hasText") THEN "hasText"
    ELSE IF Populated(conditionOptions, "hasProperty") THEN "hasProperty"
    ELSE IF Populated(conditionOptions, "custom") THEN "custom"
    ELSE "none"

DispatchCustomFirst(conditionOptions) ==
    IF Populated(conditionOptions, "custom") THEN "custom"
    ELSE IF Populated(conditionOptions, "hasClassName") THEN "hasClassName"
    ELSE IF Populated(conditionOptions, "hasAttribute") THEN "hasAttribute"
    ELSE IF Populated(conditionOptions, "hasText") THEN "hasText"
    ELSE IF Populated(conditionOptions, "hasProperty") THEN "hasProperty"
    ELSE "none"

\* The chain of ifs in CustomCondition.execute: which check a poll runs
Dispatch(conditionOptions) ==
    IF Populated(conditionOptions, "hasClassName") THEN "hasClassName"
    ELSE IF Populated(conditionOptions, "hasAttribute") THEN "hasAttribute"
    ELSE IF Populated(conditionOptions, "hasText") THEN "hasText"
    ELSE IF Populated(conditionOptions, "hasProperty") THEN "hasProperty"
    ELSE IF Populated(conditionOptions, "custom") THEN "custom"
    ELSE "none"

\* A call of a driver method (or of the caller's predicate) and the name it
\* asks for, if any
Call(method, name) == [method |-> method, name |-> name]

\* What one step of a poll yields: the calls it issued, in order, and how
\* it ended ("true", "false" or "throw")
Step(issued, end) == [calls |-> issued, end |-> end]

\* One helper (checkHasClassName, checkHasAttribute, checkHasText,
\* checkHasProperty): a single driver call inside the helper's own
\* try/catch, which turns an exception into false
Helper(d, method, name, met) ==
    IF Throws(d, method) THEN Step(<<Call(method, name)>>, "false")
    ELSE Step(<<Call(method, name)>>, IF met THEN "true" ELSE "false")

\* The body of the try block of CustomCondition.execute once the element
\* exists: the check chosen by Dispatch
Check(conditionOptions, d) ==
    LET variant == Dispatch(conditionOptions) IN
    CASE variant = "hasClassName" ->
           Helper(d, "getAttribute", "class",
                  ClassMatches(GetAttribute(d, "class"), conditionOptions.hasClassName))
      [] variant = "hasAttribute" ->
           Helper(d, "getAttribute", conditionOptions.hasAttribute.name,
                  AttributeMatches(conditionOptions.hasAttribute,
                                   GetAttribute(d, conditionOptions.hasAttribute.name)))
      [] variant = "hasText" ->
           Helper(d, "getText", "", Includes(GetText(d), conditionOptions.hasText))
      [] variant = "hasProperty" ->
           Helper(d, "getProperty", conditionOptions.hasProperty.name,
                  PropertyMatches(conditionOptions.hasProperty,
                                  GetProperty(d, conditionOptions.hasProperty.name)))
      [] variant = "custom" ->
           IF Throws(d, "getElement") THEN Step(<<Call("getElement", "")>>, "throw")
           ELSE IF Throws(d, "custom")
           THEN Step(<<Call("getElement", ""), Call("custom", "")>>, "throw")
           ELSE Step(<<Call("getElement", ""), Call("custom", "")>>,
                     IF CustomPredicate(conditionOptions.custom, d)
                     THEN "true" ELSE "false")
      [] variant = "none" -> Step(<<>>, "false")

\* The try block of CustomCondition.execute: the existence check first
TryBlock(conditionOptions, d) ==
    IF Throws(d, "exists") THEN Step(<<Call("exists", "")>>, "throw")
    ELSE IF ElementMissing(d.exists) THEN Step(<<Call("exists", "")>>, "false")
    ELSE LET check == Check(conditionOptions, d) IN
         Step(<<Call("exists", "")>> \o check.calls, check.end)

NoCatch(end) == end

\* catch (error) { console.warn(...); return false } around the try block
Catch(end) == IF end = "throw" THEN "false" ELSE end

\* One poll of a CustomCondition: the predicate handed to waitWithRetry.
\* The driver calls of one poll are answered by the backend's state at the
\* moment the poll completes.
CustomPoll(conditionOptions, d) ==
    LET try == TryBlock(conditionOptions, d) IN
    [calls |-> try.calls,
     end |-> Catch(try.end),
     caught |-> \E i \in DOMAIN try.calls : Throws(d, try.calls[i].method)]

CustomCheck(conditionOptions, d) == CustomPoll(conditionOptions, d).end = "true"

\* The predicate each of the other condition kinds hands to waitWithRetry
CheckFn(kind, d) ==
    CASE kind = "Visible"    -> d.visible
      [] kind = "NotVisible" -> ~d.visible
      [] kind = "Enabled"    -> d.enabled
      [] kind = "Exists"     -> d.exists

\* What awaiting checkFn() yields: its boolean, or an exception of the backend
ProbeOutcome(c, d) ==
    IF c.kind = "Custom"
    THEN CustomPoll(c.conditionOptions, d).end
    ELSE IF d.failing THEN "throw"
    ELSE IF CheckFn(c.kind, d) THEN "true" ELSE "false"

\* The driver method a condition of the other kinds calls
DriverCall(kind) ==
    CASE kind = "Visible"    -> "isVisible"
      [] kind = "NotVisible" -> "isVisible"
      [] kind = "Enabled"    -> "isEnabled"
      [] kind = "Exists"     -> "exists"

\* The driver calls (and the caller's predicate) one poll issues, in order
ProbeCalls(c, d) ==
    IF c.kind = "Custom" THEN CustomPoll(c.conditionOptions, d).calls
    ELSE <<Call(DriverCall(c.kind), "")>>

\* Whether the poll ran into an exception that the condition itself caught
ProbeCaught(c, d) ==
    IF c.kind = "Custom" THEN CustomPoll(c.conditionOptions, d).caught
    ELSE FALSE

---------------------------------------------------------------------------
(* getDescription() *)

\* `${value}` in a template string
Interpolated(v) ==
    CASE v.type = "null"    -> "null"
      [] v.type = "string"  -> v.value
      [] v.type = "boolean" -> IF v.value THEN "true" ELSE "false"

\* CustomCondition.getDescription(): the same chain of ifs as execute()
CustomDescription(conditionOptions) ==
    LET variant == Dispatch(conditionOptions) IN
    CASE variant = "hasClassName" ->
           "Wait for element to have class \"" \o conditionOptions.hasClassName \o "\""
      [] variant = "hasAttribute" ->
           LET attr == conditionOptions.hasAttribute IN
           "Wait for element to have attribute \"" \o attr.name \o "\"" \o
           (IF "value" \in DOMAIN attr /\ attr.value # ""
            THEN " with value \"" \o attr.value \o "\"" ELSE "")
      [] variant = "hasText" ->
           "Wait for element to contain text \"" \o conditionOptions.hasText \o "\""
      [] variant = "hasProperty" ->
           LET prop == conditionOptions.hasProperty IN
           "Wait for element to have property \"" \o prop.name \o
           "\" with value \"" \o Interpolated(prop.value) \o "\""
      [] variant = "custom" -> "Wait for custom condition to be met"
      [] variant = "none" -> "Wait for custom condition"

GetDescription(c) ==
    CASE c.kind = "Visible"    -> "Wait for element to be visible"
      [] c.kind = "NotVisible" -> "Wait for element to not be visible"
      [] c.kind = "Enabled"    -> "Wait for element to be enabled"
      [] c.kind = "Exists"     -> "Wait for element to exist"
      [] c.kind = "Custom"     -> CustomDescription(c.conditionOptions)

NoConditionsMessage ==
    "No wait conditions specified" \o
    ". Use forVisible(), forEnabled(), or forExists() before executing."

ConditionFailedMessage(description) == "Wait condition failed: " \o description

DriverErrorMessage == "driver error"

---------------------------------------------------------------------------
(* waitWithRetry: the pieces of the loop *)

LoopGuardInclusive(e, timeout) == e <= timeout

LoopGuardDoWhile(e, timeout) == e = 0 \/ e < timeout

\* The loop gives up when half of the budget is gone
LoopGuardHalfBudget(e, timeout) == 2 * e < timeout

\* while (Date.now() - startTime < timeout)
LoopGuard(e, timeout) == e < timeout

PollDecisionNoCatch(probe) ==
    CASE probe = "true"  -> "return"
      [] probe = "false" -> "sleep"
      [] probe = "throw" -> "propagate"

\* try { if (await checkFn()) return true } catch { warn }  ; await sleep(interval)
PollDecision(probe) ==
    CASE probe = "true"  -> "return"
      [] probe = "false" -> "sleep"
      [] probe = "throw" -> "sleep"

SleepTwice(interval) == 2 * interval

\* setTimeout(resolve, ms)
SleepDuration(interval) == interval

---------------------------------------------------------------------------
(* WaitBuilder.execute: the pieces of the chain *)

\* if (this.conditions.length === 0)
ConditionsEmpty(conditions) == Len(conditions) = 0

ChainNeverAborts(result) == FALSE

\* if (!result)
ChainAborts(result) == result # "true"

Pending == [type |-> "pending", value |-> "", message |-> ""]
NotStarted == [type |-> "none", value |-> "", message |-> ""]
Rejected(message) == [type |-> "rejected", value |-> "", message |-> message]
Resolved(value) == [type |-> "resolved", value |-> value, message |-> ""]

EmptyIsNoOp(builder) == Resolved(builder.wrapper)

\* throw new Error('No wait conditions specified. ...')
EmptyOutcome(builder) == Rejected(NoConditionsMessage)

FirstDescription(conditions, i) == GetDescription(conditions[1])

\* the description the thrown error carries: that of the condition just awaited
FailedDescription(conditions, i) == GetDescription(conditions[i])

FailureReturnsFalse(description) == Resolved("false")

\* throw new Error(`Wait condition failed: ${condition.getDescription()}`)
FailureOutcome(description) == Rejected(ConditionFailedMessage(description))

SuccessReturnsCopy(builder) == Resolved(NewWrapper)

\* The wrapper of the chain made first, as if kept in one shared field
SuccessOutcomeOfFirst(builder) == Resolved(builders[1].wrapper)

\* return this.wrapper
SuccessOutcome(builder) == Resolved(builder.wrapper)

PushedFirst(conditions, condition) == <<condition>> \o conditions

\* this.conditions.push(condition)
Pushed(conditions, condition) == Append(conditions, condition)

---------------------------------------------------------------------------
(* State after construction: wrappers exist, no builder has been created,  *)
(* the driver reports nothing about the element.                           *)

NoBuilder == [created |-> FALSE, wrapper |-> "", conditions |-> <<>>]

\* No ScrollBuilder has been created
NoScroll ==
    [created |-> FALSE, wrapper |-> "", options |-> <<>>, pc |-> "idle",
     elapsed |-> 0, timer |-> 0, log |-> <<>>, scrolls |-> 0, sleeps |-> 0,
     outcome |-> NotStarted]

\* Neither typeText nor dismissKeyboard is running; global.device is set and
\* synchronizes. outcome is dismissKeyboard's promise, typed is typeText's
NoKeyboard ==
    [pc |-> "idle", device |-> TRUE, synchronized |-> TRUE, disabled |-> FALSE,
     log |-> <<>>, outcome |-> NotStarted, typed |-> NotStarted, option |-> Null]

\* No for..of loop runs: atCall is this.conditions as execute() found it,
\* and once clearConditions has reassigned this.conditions during the call,
\* array is the old array the loop still iterates
NoIterator == [atCall |-> <<>>, detached |-> FALSE, array |-> <<>>]

\* create(selector) without its second argument
NoCreateOptions == [framework |-> "", driver |-> Null, detoxElement |-> Null]

\* What a call of create yields: a wrapper around a new driver, or an error
NotCreated == [type |-> "none", framework |-> "", handle |-> Null, message |-> ""]

\* E2EWrapper.create has not been called
NoCreation == [called |-> FALSE, options |-> NoCreateOptions, outcome |-> NotCreated]

\* private static config = { framework: TestFramework.DETOX }
DefaultConfig == [framework |-> "detox", appiumDriver |-> Null, detoxElement |-> Null]

\* E2E_FRAMEWORK is not set and configureFromEnvironment has not run;
\* frameworkEnv is the local constant of its last call
InitialEnv == [E2E_FRAMEWORK |-> Null, reads |-> 0, frameworkEnv |-> Null]

\* No builder object has been allocated
NoObjects == [objects |-> <<>>, literals |-> {}, waits |-> <<>>, scrolls |-> <<>>]

\* isSubstantiallyVisible has not been called
NoEstimate == [called |-> FALSE, threshold |-> 0, result |-> FALSE]

InitialDriver ==
    [visible |-> FALSE, enabled |-> FALSE, exists |-> FALSE, failing |-> FALSE]

InitExec ==
    /\ builders = [b \in AllBuilders |-> NoBuilder]
    /\ pc = [b \in AllBuilders |-> "idle"]
    /\ idx = [b \in AllBuilders |-> 0]
    /\ elapsed = [b \in AllBuilders |-> 0]
    /\ timer = [b \in AllBuilders |-> 0]
    /\ calls = [b \in AllBuilders |-> <<>>]
    /\ sleeps = [b \in AllBuilders |-> 0]
    /\ threw = [b \in AllBuilders |-> FALSE]
    /\ slow = [b \in AllBuilders |-> FALSE]
    /\ results = [b \in AllBuilders |-> <<>>]
    /\ outcome = [b \in AllBuilders |-> NotStarted]
    /\ trace = [b \in AllBuilders |-> <<>>]
    /\ caught = [b \in AllBuilders |-> FALSE]
    /\ scroll = NoScroll
    /\ estimate = NoEstimate
    /\ described = [b \in AllBuilders |-> <<>>]
    /\ heap = NoObjects
    /\ config = DefaultConfig
    /\ env = InitialEnv
    /\ creation = NoCreation
    /\ iter = [b \in AllBuilders |-> NoIterator]
    /\ keyboard = NoKeyboard

Init ==
    /\ driver = InitialDriver
    /\ InitExec

execVars == <<pc, idx, elapsed, timer, calls, sleeps, threw, slow, results, outcome,
              trace, caught, scroll,
              estimate,
              described,
              heap,
              config,
              env,
              creation,
              iter,
              keyboard>>

---------------------------------------------------------------------------
(* The test's hand on the backend: the element's state changes *)

SetMockState(d) ==
    /\ d # driver
    /\ driver' = d
    /\ UNCHANGED <<builders, execVars>>

---------------------------------------------------------------------------
(* E2EWrapper.wait() and the builder's fluent operations *)

Wait(b, w) ==
    /\ ~builders[b].created
    /\ builders' = [builders EXCEPT ![b] =
                        [created |-> TRUE, wrapper |-> w, conditions |-> <<>>]]
    /\ UNCHANGED <<driver, execVars>>

\* this.conditions.push(condition); return this
PushCondition(b, kind, conditionOptions, options) ==
    /\ builders[b].created
    /\ builders' = [builders EXCEPT ![b].conditions =
                        Pushed(@, NewCondition(kind, conditionOptions, options,
                                               Len(@) + 1))]
    /\ UNCHANGED <<driver, execVars>>

ForVisible(b, options) == PushCondition(b, "Visible", NoConditionOptions, options)

ForNotVisible(b, options) == PushCondition(b, "NotVisible", NoConditionOptions, options)

ForEnabled(b, options) == PushCondition(b, "Enabled", NoConditionOptions, options)

ForExists(b, options) == PushCondition(b, "Exists", NoConditionOptions, options)

ForCustom(b, conditionOptions, options) ==
    PushCondition(b, "Custom", conditionOptions, options)

\* Only the last condition is dropped
ClearDropsLast(b) ==
    /\ builders[b].created
    /\ builders[b].conditions # <<>>
    /\ builders' = [builders EXCEPT ![b].conditions = SubSeq(@, 1, Len(@) - 1)]
    /\ UNCHANGED <<driver, execVars>>

\* this.conditions = []; return this
ClearConditions(b) ==
    /\ builders[b].created
    /\ builders[b].conditions # <<>>
    /\ builders' = [builders EXCEPT ![b].conditions = <<>>]
    /\ UNCHANGED <<driver, execVars>>

\* clearConditions() called by another task while execute() is suspended
\* at an await: this.conditions points to a new empty array, the for..of
\* loop keeps the array it began with
ClearSuspended(b) ==
    /\ pc[b] \in {"probing", "sleeping"}
    /\ builders[b].conditions # <<>>
    /\ iter' = [iter EXCEPT ![b] =
                   IF @.detached THEN @
                   ELSE [@ EXCEPT !.detached = TRUE, !.array = builders[b].conditions]]
    /\ builders' = [builders EXCEPT ![b].conditions = <<>>]
    /\ UNCHANGED <<driver, scroll, estimate, described, heap, config, env, creation,
                   pc, idx, elapsed, timer, calls, sleeps, threw, slow, results,
                   outcome, trace, caught, keyboard>>

\* The descriptions, last condition first
DescriptionsReversed(conditions) ==
    [i \in 1..Len(conditions) |-> GetDescription(conditions[Len(conditions) + 1 - i])]

\* this.conditions.map(condition => condition.getDescription())
Descriptions(conditions) ==
    [i \in 1..Len(conditions) |-> GetDescription(conditions[i])]

GetConditionDescriptions(b) ==
    /\ builders[b].created
    /\ described' = [described EXCEPT ![b] = Descriptions(builders[b].conditions)]
    /\ UNCHANGED <<estimate, heap, config, env, creation, iter, keyboard, scroll, driver, builders, pc, idx, elapsed, timer, calls,
                   sleeps, threw, slow, results, outcome, trace, caught>>

---------------------------------------------------------------------------
(* WaitBuilder.execute() and WaitCondition.waitWithRetry() *)

Running(b) == pc[b] \in {"probing", "sleeping", "returned"}

Zeros(n) == [i \in 1..n |-> 0]
Nones(n) == [i \in 1..n |-> "none"]

\* The array the for..of loop of builder b's execute() iterates: the one
\* this.conditions pointed to when the loop began
Iterated(b) == IF iter[b].detached THEN iter[b].array ELSE builders[b].conditions

\* The bookkeeping of a call, extended to n conditions
Padded(seq, n, v) ==
    [j \in 1..(IF n > Len(seq) THEN n ELSE Len(seq)) |->
        IF j <= Len(seq) THEN seq[j] ELSE v]

\* The head of the while loop of condition i, reached at elapsed time e with
\* the bookkeeping cs (calls), rs (results) and sl (slow): either the
\* predicate is called (a driver call of dur ms is now in flight) or the
\* loop is left and the condition's execute() returns false.
WhileLoop(b, i, e, dur, cs, rs, sl) ==
    LET c == Iterated(b)[i] IN
    /\ idx' = [idx EXCEPT ![b] = i]
    /\ elapsed' = [elapsed EXCEPT ![b] = e]
    /\ IF LoopGuard(e, c.options.timeout)
       THEN /\ pc' = [pc EXCEPT ![b] = "probing"]
            /\ timer' = [timer EXCEPT ![b] = dur]
            /\ calls' = [calls EXCEPT ![b] = [cs EXCEPT ![i] = @ + 1]]
            /\ results' = [results EXCEPT ![b] = rs]
            /\ slow' = [slow EXCEPT ![b] = sl \/ dur > 0]
       ELSE /\ pc' = [pc EXCEPT ![b] = "returned"]
            /\ timer' = [timer EXCEPT ![b] = 0]
            /\ calls' = [calls EXCEPT ![b] = cs]
            /\ results' = [results EXCEPT ![b] = [rs EXCEPT ![i] = "false"]]
            /\ slow' = [slow EXCEPT ![b] = sl]

\* execute() is called: the emptiness check, then the first condition's
\* execute() up to its first await
Execute(b, dur) ==
    LET conditions == builders[b].conditions
        n == Len(conditions) IN
    /\ builders[b].created
    /\ pc[b] = "idle"
    /\ IF ConditionsEmpty(conditions)
       THEN /\ outcome' = [outcome EXCEPT ![b] = EmptyOutcome(builders[b])]
            /\ pc' = [pc EXCEPT ![b] = "settled"]
            /\ idx' = [idx EXCEPT ![b] = 0]
            /\ elapsed' = [elapsed EXCEPT ![b] = 0]
            /\ timer' = [timer EXCEPT ![b] = 0]
            /\ calls' = [calls EXCEPT ![b] = Zeros(n)]
            /\ results' = [results EXCEPT ![b] = Nones(n)]
            /\ slow' = [slow EXCEPT ![b] = FALSE]
       ELSE /\ outcome' = [outcome EXCEPT ![b] = Pending]
            /\ WhileLoop(b, 1, 0, dur, Zeros(n), Nones(n), FALSE)
    /\ sleeps' = [sleeps EXCEPT ![b] = 0]
    /\ threw' = [threw EXCEPT ![b] = FALSE]
    /\ trace' = [trace EXCEPT ![b] = <<>>]
    /\ caught' = [caught EXCEPT ![b] = FALSE]
    /\ iter' = [iter EXCEPT ![b] = [NoIterator EXCEPT !.atCall = conditions]]
    /\ UNCHANGED <<estimate, described, heap, config, env, creation, keyboard, scroll, driver, builders>>

\* The driver call resolves or rejects: return true, or sleep
ProbeDone(b) ==
    LET i == idx[b]
        c == Iterated(b)[i]
        probe == ProbeOutcome(c, driver)
        decision == PollDecision(probe) IN
    /\ pc[b] = "probing"
    /\ timer[b] = 0
    /\ threw' = [threw EXCEPT ![b] = @ \/ probe = "throw"]
    /\ trace' = [trace EXCEPT ![b] = ProbeCalls(c, driver)]
    /\ caught' = [caught EXCEPT ![b] = @ \/ ProbeCaught(c, driver)]
    /\ CASE decision = "return" ->
              /\ results' = [results EXCEPT ![b][i] = "true"]
              /\ pc' = [pc EXCEPT ![b] = "returned"]
              /\ UNCHANGED <<timer, sleeps>>
         [] decision = "sleep" ->
              /\ pc' = [pc EXCEPT ![b] = "sleeping"]
              /\ timer' = [timer EXCEPT ![b] = SleepDuration(c.options.interval)]
              /\ sleeps' = [sleeps EXCEPT ![b] = @ + 1]
              /\ UNCHANGED results
         [] decision = "propagate" ->
              /\ results' = [results EXCEPT ![b][i] = "threw"]
              /\ pc' = [pc EXCEPT ![b] = "returned"]
              /\ UNCHANGED <<timer, sleeps>>
    /\ UNCHANGED <<estimate, described, heap, config, env, creation, iter, keyboard, scroll, driver, builders, idx, elapsed, calls, slow, outcome>>

\* The sleep is over: back to the head of the while loop
SleepDone(b, dur) ==
    /\ pc[b] = "sleeping"
    /\ timer[b] = 0
    /\ WhileLoop(b, idx[b], elapsed[b], dur, calls[b], results[b], slow[b])
    /\ trace' = [trace EXCEPT ![b] = <<>>]
    /\ UNCHANGED <<estimate, described, heap, config, env, creation, iter, keyboard, scroll, driver, builders, sleeps, threw, outcome, caught>>

\* await condition.execute() resumes in the for..of loop of the chain
ChainStep(b, dur) ==
    LET i == idx[b]
        conditions == Iterated(b)
        result == results[b][i] IN
    /\ pc[b] = "returned"
    /\ IF result = "threw"
       THEN /\ outcome' = [outcome EXCEPT ![b] = Rejected(DriverErrorMessage)]
            /\ pc' = [pc EXCEPT ![b] = "settled"]
            /\ UNCHANGED <<idx, elapsed, timer, calls, results, sleeps, threw, slow,
                           caught>>
       ELSE IF ChainAborts(result)
       THEN /\ outcome' = [outcome EXCEPT ![b] =
                               FailureOutcome(FailedDescription(conditions, i))]
            /\ pc' = [pc EXCEPT ![b] = "settled"]
            /\ UNCHANGED <<idx, elapsed, timer, calls, results, sleeps, threw, slow,
                           caught>>
       ELSE IF i < Len(conditions)
       THEN /\ WhileLoop(b, i + 1, 0, dur, Padded(calls[b], Len(conditions), 0),
                      Padded(results[b], Len(conditions), "none"), FALSE)
            /\ sleeps' = [sleeps EXCEPT ![b] = 0]
            /\ threw' = [threw EXCEPT ![b] = FALSE]
            /\ caught' = [caught EXCEPT ![b] = FALSE]
            /\ UNCHANGED outcome
       ELSE /\ outcome' = [outcome EXCEPT ![b] = SuccessOutcome(builders[b])]
            /\ pc' = [pc EXCEPT ![b] = "settled"]
            /\ UNCHANGED <<idx, elapsed, timer, calls, results, sleeps, threw, slow,
                           caught>>
    /\ trace' = [trace EXCEPT ![b] = <<>>]
    /\ UNCHANGED <<estimate, described, heap, config, env, creation, iter, keyboard, scroll, driver, builders>>

\* The caller has taken the settled promise's result; the builder is free
\* for reuse and the bookkeeping of the finished call is dropped
Release(b) ==
    /\ pc[b] = "settled"
    /\ pc' = [pc EXCEPT ![b] = "idle"]
    /\ idx' = [idx EXCEPT ![b] = 0]
    /\ elapsed' = [elapsed EXCEPT ![b] = 0]
    /\ calls' = [calls EXCEPT ![b] = <<>>]
    /\ sleeps' = [sleeps EXCEPT ![b] = 0]
    /\ threw' = [threw EXCEPT ![b] = FALSE]
    /\ slow' = [slow EXCEPT ![b] = FALSE]
    /\ results' = [results EXCEPT ![b] = <<>>]
    /\ outcome' = [outcome EXCEPT ![b] = NotStarted]
    /\ caught' = [caught EXCEPT ![b] = FALSE]
    /\ iter' = [iter EXCEPT ![b] = NoIterator]
    /\ UNCHANGED <<estimate, described, heap, config, env, creation, keyboard, scroll, driver, builders, timer, trace>>

---------------------------------------------------------------------------
(* The clock: when every running call is suspended on a timer, time moves  *)
(* to the next expiry.                                                     *)

Waiting(b) == pc[b] \in {"probing", "sleeping"} /\ timer[b] > 0

Ready(b) == pc[b] = "returned" \/ (pc[b] \in {"probing", "sleeping"} /\ timer[b] = 0)

MinTimer ==
    CHOOSE d \in {timer[b] : b \in {x \in AllBuilders : Waiting(x)}} :
        \A b \in AllBuilders : Waiting(b) => d <= timer[b]

TimePasses ==
    /\ \E b \in AllBuilders : Waiting(b)
    /\ \A b \in AllBuilders : ~Ready(b)
    /\ timer' = [b \in AllBuilders |-> IF Waiting(b) THEN timer[b] - MinTimer ELSE timer[b]]
    /\ elapsed' = [b \in AllBuilders |-> IF Waiting(b) THEN elapsed[b] + MinTimer ELSE elapsed[b]]
    /\ UNCHANGED <<estimate, described, heap, config, env, creation, iter, keyboard, scroll, driver, builders, pc, idx, calls, sleeps, threw, slow, results,
                   outcome, trace, caught>>

---------------------------------------------------------------------------
(* What the caller does with builder b, and the steps of its execute().    *)
(* The caller awaits execute(): it touches the builder only between calls. *)

Idle(b) == pc[b] = "idle"

NoOtherCall(b) == \A x \in AllBuilders \ {b} : pc[x] \in {"idle", "settled"}

Build(b, opts, customs, limit) ==
    \/ \E w \in Wrappers : Wait(b, w)
    \/ \E o \in opts :
          /\ Idle(b)
          /\ Len(builders[b].conditions) < limit
          /\ \/ ForVisible(b, o)
             \/ ForNotVisible(b, o)
             \/ ForEnabled(b, o)
             \/ ForExists(b, o)
             \/ \E co \in customs : ForCustom(b, co, o)
    \/ Idle(b) /\ ClearConditions(b)

Run(b, durs) ==
    \/ \E dur \in durs : NoOtherCall(b) /\ Execute(b, dur)
    \/ ProbeDone(b)
    \/ \E dur \in durs : SleepDone(b, dur)
    \/ \E dur \in durs : ChainStep(b, dur)
    \/ Release(b)

---------------------------------------------------------------------------
(* Spec: one chain of up to MaxConds conditions with short explicit        *)
(* options, over a backend whose answers change at any time; driver calls  *)
(* take no time.                                                           *)

ChainOptions == {[timeout |-> 2, interval |-> 1]}

\* forCustom({ custom: async (element, driver) => true })
ChainCustoms == {[custom |-> "alwaysTrue"]}

Next ==
    \/ \E d \in DriverStates : SetMockState(d)
    \/ Build(1, ChainOptions, ChainCustoms, MaxConds)
    \/ Run(1, {0})
    \/ TimePasses

Spec == Init /\ [][Next]_vars

---------------------------------------------------------------------------
(* SpecCond: one condition alone, every explicit timeout and interval up   *)
(* to the bounds, driver calls of 0..MaxProbeDur ms.                       *)

CondOptions == [timeout : 0..MaxTimeout, interval : 1..MaxInterval]

ProbeDurs == 0..MaxProbeDur

NextCond ==
    \/ \E d \in DriverStates : SetMockState(d)
    \/ Build(1, CondOptions, ChainCustoms, 1)
    \/ Run(1, ProbeDurs)
    \/ TimePasses

SpecCond == Init /\ [][NextCond]_vars

---------------------------------------------------------------------------
(* SpecLive: one condition alone as in SpecCond, with the scheduling of    *)
(* the event loop: a driver call that is awaited settles, a due timer      *)
(* fires, a resumed continuation runs, and the clock moves on.             *)

NextLive ==
    \/ \E d \in {x \in DriverStates : ~x.enabled /\ ~x.exists} : SetMockState(d)
    \/ Wait(1, "w1")
    \/ \E o \in CondOptions :
          /\ Idle(1)
          /\ Len(builders[1].conditions) < 1
          /\ ForVisible(1, o) \/ ForNotVisible(1, o)
    \/ \E dur \in ProbeDurs : Execute(1, dur)
    \/ ProbeDone(1)
    \/ \E dur \in ProbeDurs : SleepDone(1, dur)
    \/ \E dur \in ProbeDurs : ChainStep(1, dur)
    \/ Release(1)
    \/ TimePasses

SpecLive ==
    /\ Init
    /\ [][NextLive]_vars
    /\ WF_vars(ProbeDone(1))
    /\ WF_vars(\E dur \in ProbeDurs : SleepDone(1, dur))
    /\ WF_vars(TimePasses)

---------------------------------------------------------------------------
(* SpecOrder: two builders of one wrapper with default options, run one    *)
(* after the other against one backend state that was set up before and    *)
(* does not change.                                                        *)

InitOrder ==
    /\ driver \in {d \in DriverStates : ~d.failing}
    /\ InitExec

BuildPair(b) ==
    \/ Wait(b, "w1")
    \/ /\ Idle(b)
       /\ Len(builders[b].conditions) < MaxPair
       /\ \/ ForVisible(b, NoOptions)
          \/ ForEnabled(b, NoOptions)
    \/ Idle(b) /\ ClearConditions(b)

NextOrder ==
    \/ \E b \in AllBuilders : BuildPair(b)
    \/ \E b \in AllBuilders : Run(b, {0})
    \/ TimePasses

SpecOrder == InitOrder /\ [][NextOrder]_vars

---------------------------------------------------------------------------
(* SpecRetries: two builders with one condition each, alike but for        *)
(* WaitOptions.retries, started at the same instant against one backend    *)
(* whose answers change only while both calls are suspended; driver calls  *)
(* take no time, so both conditions poll at the same instants.             *)

RetryCounts == {0, 1, DefaultRetries}

TwinOptions ==
    [timeout : {0, MaxTimeout - 1, MaxTimeout}, interval : 1..MaxInterval,
     retries : RetryCounts]

\* The other builder of the pair
Twin(b) == 3 - b

\* forVisible / forNotVisible on builder 2 with builder 1's options but
\* for retries
PushTwin(retries) ==
    /\ Len(builders[1].conditions) = 1
    /\ Len(builders[2].conditions) = 0
    /\ LET c == builders[1].conditions[1] IN
       /\ retries # c.options.retries
       /\ PushCondition(2, c.kind, NoConditionOptions,
                        [c.options EXCEPT !.retries = retries])

\* Both calls are suspended, or neither has started
Quiescent ==
    \/ \A b \in AllBuilders : pc[b] = "idle"
    \/ \A b \in AllBuilders : pc[b] # "idle" /\ ~Ready(b)

NextRetries ==
    \/ \E d \in {x \in DriverStates : ~x.enabled /\ ~x.exists} :
          Quiescent /\ SetMockState(d)
    \/ \E b \in AllBuilders : Wait(b, "w1")
    \/ \E o \in TwinOptions :
          /\ Len(builders[1].conditions) = 0
          /\ ForVisible(1, o) \/ ForNotVisible(1, o)
    \/ \E retries \in RetryCounts : PushTwin(retries)
    \/ \E b \in AllBuilders :
          /\ \A x \in AllBuilders : Len(builders[x].conditions) = 1
          /\ pc[Twin(b)] = "idle" \/ elapsed[Twin(b)] = 0
          /\ Execute(b, 0)
    \/ \E b \in AllBuilders : ProbeDone(b)
    \/ \E b \in AllBuilders : SleepDone(b, 0)
    \/ \E b \in AllBuilders : ChainStep(b, 0)
    \/ (\A b \in AllBuilders : pc[b] # "idle") /\ TimePasses

SpecRetries == Init /\ [][NextRetries]_vars

---------------------------------------------------------------------------
(* SpecInterleave: two chains, of one wrapper or of two, whose execute()   *)
(* calls run at the same time and take turns at their awaits, against a    *)
(* backend whose answers were set up before and do not change.             *)

InitInterleave ==
    /\ driver \in {d \in DriverStates : d.exists}
    /\ InitExec

NextInterleave ==
    \/ \E b \in AllBuilders : \E w \in Wrappers : Wait(b, w)
    \/ \E b \in AllBuilders : \E o \in ChainOptions :
          /\ Idle(b)
          /\ Len(builders[b].conditions) < MaxPair
          /\ ForVisible(b, o) \/ ForEnabled(b, o)
    \/ \E b \in AllBuilders : Execute(b, 0)
    \/ \E b \in AllBuilders : ProbeDone(b)
    \/ \E b \in AllBuilders : SleepDone(b, 0)
    \/ \E b \in AllBuilders : ChainStep(b, 0)
    \/ \E b \in AllBuilders : Release(b)
    \/ TimePasses

SpecInterleave == InitInterleave /\ [][NextInterleave]_vars

---------------------------------------------------------------------------
(* SpecRace: one chain whose builder another task appends to or clears     *)
(* while execute() is suspended at an await.                               *)

\* execute() of builder b is suspended at an await, or has not been called
OtherTaskRuns(b) == pc[b] \in {"idle", "probing", "sleeping"}

InitRace ==
    /\ driver = [visible |-> FALSE, enabled |-> TRUE, exists |-> TRUE, failing |-> FALSE]
    /\ InitExec

NextRace ==
    \/ \E v \in BOOLEAN :
          SetMockState([visible |-> v, enabled |-> TRUE, exists |-> TRUE,
                        failing |-> FALSE])
    \/ Wait(1, "w1")
    \/ \E o \in ChainOptions :
          /\ OtherTaskRuns(1)
          /\ Len(builders[1].conditions) < MaxConds
          /\ ForVisible(1, o) \/ ForEnabled(1, o)
    \/ Idle(1) /\ ClearConditions(1)
    \/ ClearSuspended(1)
    \/ Execute(1, 0)
    \/ ProbeDone(1)
    \/ SleepDone(1, 0)
    \/ ChainStep(1, 0)
    \/ Release(1)
    \/ TimePasses

SpecRace == InitRace /\ [][NextRace]_vars

---------------------------------------------------------------------------
(* The test's hand on the backend of a CustomCondition: attributes, text,  *)
(* properties, and calls that reject.                                      *)

AttributeNames == {"class", "data-status"}

PropertyNames == {"checked"}

\* The driver methods a CustomCondition poll can call, and the caller's predicate
CustomCalls == {"exists", "getAttribute", "getText", "getProperty", "getElement", "custom"}

\* A backend that was told nothing about the element
InitialCustomDriver ==
    [visible |-> FALSE, enabled |-> FALSE, exists |-> FALSE, failing |-> FALSE,
     attributes |-> [n \in AttributeNames |-> Null],
     text |-> "",
     properties |-> [n \in PropertyNames |-> Null],
     throws |-> {}]

InitCustom ==
    /\ driver = InitialCustomDriver
    /\ InitExec

SetMockAttribute(name, value) ==
    /\ driver.attributes[name] # value
    /\ driver' = [driver EXCEPT !.attributes[name] = value]
    /\ UNCHANGED <<builders, execVars>>

SetMockText(text) ==
    /\ driver.text # text
    /\ driver' = [driver EXCEPT !.text = text]
    /\ UNCHANGED <<builders, execVars>>

SetMockProperty(name, value) ==
    /\ driver.properties[name] # value
    /\ driver' = [driver EXCEPT !.properties[name] = value]
    /\ UNCHANGED <<builders, execVars>>

\* From now on exactly the calls in rejecting reject
SetRejecting(rejecting) ==
    /\ driver.throws # rejecting
    /\ driver' = [driver EXCEPT !.throws = rejecting]
    /\ UNCHANGED <<builders, execVars>>

\* What the caller does with builder b when it waits for one custom condition
BuildCustom(b, customs) ==
    \/ Wait(b, "w1")
    \/ \E co \in customs : \E o \in ChainOptions :
          /\ Idle(b)
          /\ Len(builders[b].conditions) < 1
          /\ ForCustom(b, co, o)
    \/ Idle(b) /\ ClearConditions(b)

---------------------------------------------------------------------------
(* SpecCustom: one CustomCondition with any combination of the five fields *)
(* of CustomConditionOptions, over a backend whose answers change at any   *)
(* time and whose calls may reject.                                        *)

CustomFields == {"hasClassName", "hasAttribute", "hasText", "hasProperty", "custom"}

FieldValue(field) ==
    CASE field = "hasClassName" -> "active"
      [] field = "hasAttribute" -> [name |-> "data-status", value |-> "active"]
      [] field = "hasText"      -> "Click"
      [] field = "hasProperty"  -> [name |-> "checked", value |-> Bool(TRUE)]
      [] field = "custom"       -> "alwaysTrue"

CustomSpecs == {[f \in fields |-> FieldValue(f)] : fields \in SUBSET CustomFields}

MockAttributeValues(name) ==
    IF name = "class" THEN {Null, Str("btn active")} ELSE {Null, Str("active")}

MockTexts == {"", "Click me"}

MockPropertyValues == {Null, Bool(TRUE)}

Rejectings == {{}} \cup {{call} : call \in CustomCalls}

NextCustom ==
    \/ \E e \in BOOLEAN : SetMockState([driver EXCEPT !.exists = e])
    \/ \E n \in AttributeNames : \E v \in MockAttributeValues(n) : SetMockAttribute(n, v)
    \/ \E t \in MockTexts : SetMockText(t)
    \/ \E n \in PropertyNames : \E v \in MockPropertyValues : SetMockProperty(n, v)
    \/ \E r \in Rejectings : SetRejecting(r)
    \/ BuildCustom(1, CustomSpecs)
    \/ Run(1, {0})
    \/ TimePasses

SpecCustom == InitCustom /\ [][NextCustom]_vars

---------------------------------------------------------------------------
(* ScrollBuilder: options.  Thresholds are in thousandths (0.9 is 900);    *)
(* the scroll amount is carried as its numeral.                            *)

DefaultScrollTimeout == 10000
DefaultScrollInterval == 500
DefaultMarginFromEdge == 50

DefaultScrollOptions ==
    [direction |-> "down", timeout |-> DefaultScrollTimeout,
     interval |-> DefaultScrollInterval, scrollAmount |-> "0.3",
     visibilityThreshold |-> 0, centerInViewport |-> FALSE,
     marginFromEdge |-> DefaultMarginFromEdge, useBasicVisibility |-> FALSE]

\* this.options = { direction: ..., useBasicVisibility: false, ...options }
MergeScrollOptions(options) ==
    [f \in DOMAIN DefaultScrollOptions \cup DOMAIN options |->
        IF f \in DOMAIN options THEN options[f] ELSE DefaultScrollOptions[f]]

\* const timeout = this.options.timeout || 10000
EffectiveTimeout(options) ==
    IF options.timeout = 0 THEN DefaultScrollTimeout ELSE options.timeout

\* const interval = this.options.interval || 500
EffectiveInterval(options) ==
    IF options.interval = 0 THEN DefaultScrollInterval ELSE options.interval

EnhancedWheneverSupported(options, d) ==
    /\ ~options.useBasicVisibility
    /\ d.canFraction

\* !useBasicVisibility && visibilityThreshold && visibilityThreshold > 0 &&
\* typeof this.driver.isSubstantiallyVisible === 'function'
ShouldUseEnhanced(options, d) ==
    /\ ~options.useBasicVisibility
    /\ options.visibilityThreshold # 0
    /\ options.visibilityThreshold > 0
    /\ d.canFraction

HalfwayInclusive(e, timeout) == 2 * e >= timeout

\* Date.now() - startTime > timeout * 0.5
Halfway(e, timeout) == 2 * e > timeout

Max(a, b) == IF a >= b THEN a ELSE b

\* 70% of the threshold with no floor of 0.5
LowerThresholdNoFloor(threshold) == (threshold * 7) \div 10

\* Math.max(0.5, visibilityThreshold * 0.7)
LowerThreshold(threshold) == Max(500, (threshold * 7) \div 10)

\* while (Date.now() - startTime < timeout)
ScrollLoopGuard(e, timeout) == e < timeout

\* message?.includes('Unable to scroll') || message?.includes('scroll')
IsBoundaryError(message) ==
    Includes(message, "Unable to scroll") \/ Includes(message, "scroll")

\* The backend's answer to isSubstantiallyVisible(selector, threshold)
FractionAnswer(d, threshold) == d.fraction >= threshold

TimeoutMessage(options) ==
    "Scroll to element failed: Target element not found within " \o
    ToString(EffectiveTimeout(options)) \o "ms. Scrolling " \o options.direction \o
    " with " \o options.scrollAmount \o " scroll amount."

BoundaryMessage ==
    "Element not found: reached end of scrollable area and element is still not visible"

NotImplementedMessage(framework) ==
    "Scroll functionality not implemented for " \o framework \o " driver"

CenterErrorMessage == "center error"

FallbackIgnoresProbe(isBasicallyVisible) == Rejected(BoundaryMessage)

\* if (isBasicallyVisible) return new E2EWrapper(...) else throw new Error(...)
FallbackOutcome(isBasicallyVisible) ==
    IF isBasicallyVisible THEN Resolved(NewWrapper) ELSE Rejected(BoundaryMessage)

ScrollErrorSwallowed(message) == "sleep"

\* catch (scrollError): the boundary case checks isVisible once more, any
\* other error is thrown again
OnScrollError(message) ==
    IF IsBoundaryError(message) THEN "fallback" ELSE "rethrow"

---------------------------------------------------------------------------
(* ScrollBuilder: construction, setters and execute().  scroll.log holds   *)
(* the driver calls of the current iteration, scroll.scrolls and           *)
(* scroll.sleeps count the scroll calls and the interval sleeps of the     *)
(* current execute().                                                      *)

waitVars == <<builders, pc, idx, elapsed, timer, calls, sleeps, threw, slow, results,
              outcome, trace, caught,
              estimate,
              described,
              heap,
              config,
              env,
              creation,
              iter,
              keyboard>>

Framework == "detox"

\* E2EWrapper.scrollTo(options): new ScrollBuilder(driver, selector, options)
ScrollTo(w, options) ==
    /\ ~scroll.created
    /\ scroll' = [NoScroll EXCEPT !.created = TRUE, !.wrapper = w,
                                  !.options = MergeScrollOptions(options)]
    /\ UNCHANGED <<driver, waitVars>>

\* A setter: this.options.<field> = value; return this
SetOption(field, value) ==
    /\ scroll.created
    /\ scroll.pc = "idle"
    /\ scroll' = [scroll EXCEPT !.options =
                     [f \in DOMAIN @ \cup {field} |-> IF f = field THEN value ELSE @[f]]]
    /\ UNCHANGED <<driver, waitVars>>

Direction(direction) == SetOption("direction", direction)

Timeout(timeout) == SetOption("timeout", timeout)

Interval(interval) == SetOption("interval", interval)

ScrollAmount(amount) == SetOption("scrollAmount", amount)

Within(containerSelector) == SetOption("containerSelector", containerSelector)

VisibilityThreshold(threshold) == SetOption("visibilityThreshold", threshold)

CenterInViewport(center) == SetOption("centerInViewport", center)

MarginFromEdge(margin) == SetOption("marginFromEdge", margin)

\* execute() settles
Settle(sc, result) == [sc EXCEPT !.pc = "settled", !.timer = 0, !.outcome = result]

\* One more driver call is in flight
Issue(sc, position, call) == [sc EXCEPT !.pc = position, !.log = Append(@, call)]

\* The head of the while loop at elapsed time e: the visibility check of a
\* new iteration is issued (the driver answers it after dur), or the loop
\* is left and execute() throws
ScrollHead(sc, d, e, dur) ==
    IF ScrollLoopGuard(e, EffectiveTimeout(sc.options))
    THEN Issue([sc EXCEPT !.elapsed = e, !.log = <<>>, !.timer = dur], "checking",
               IF ShouldUseEnhanced(sc.options, d)
               THEN Call("isSubstantiallyVisible", sc.options.visibilityThreshold)
               ELSE Call("isVisible", ""))
    ELSE Settle([sc EXCEPT !.elapsed = e, !.log = <<>>],
                Rejected(TimeoutMessage(sc.options)))

\* Scrolls whatever the visibility check answered
DecideScrollsAnyway(sc, d, isVisible) ==
    IF d.canScroll
    THEN Issue([sc EXCEPT !.scrolls = @ + 1], "scrolling",
               Call("scroll", sc.options.direction))
    ELSE Settle(sc, Resolved(NewWrapper))

\* if (isVisible) { center?; return new E2EWrapper(...) } else scroll
Decide(sc, d, isVisible) ==
    IF isVisible
    THEN IF sc.options.centerInViewport /\ d.canCenter
         THEN Issue(sc, "centering", Call("centerElementInViewport", ""))
         ELSE Settle(sc, Resolved(NewWrapper))
    ELSE IF d.canScroll
         THEN Issue([sc EXCEPT !.scrolls = @ + 1], "scrolling",
                    Call("scroll", sc.options.direction))
         ELSE Settle(sc, Rejected(NotImplementedMessage(Framework)))

ScrollExecute(durs) ==
    /\ scroll.created
    /\ scroll.pc = "idle"
    /\ \E dur \in durs :
          scroll' = ScrollHead([scroll EXCEPT !.scrolls = 0, !.sleeps = 0,
                                              !.outcome = Pending], driver, 0, dur)
    /\ UNCHANGED <<driver, waitVars>>

\* The visibility check of the iteration answers; scroll.elapsed is
\* Date.now() - startTime at that moment
CheckDone ==
    LET enhanced == scroll.log[1].method = "isSubstantiallyVisible"
        threshold == scroll.options.visibilityThreshold
        isVisible == IF enhanced THEN FractionAnswer(driver, threshold)
                     ELSE driver.visible IN
    /\ scroll.pc = "checking"
    /\ scroll.timer = 0
    /\ scroll' =
          IF driver.failing THEN Settle(scroll, Rejected(DriverErrorMessage))
          ELSE IF enhanced /\ ~isVisible
                  /\ Halfway(scroll.elapsed, EffectiveTimeout(scroll.options))
          THEN Issue(scroll, "relaxed",
                     Call("isSubstantiallyVisible", LowerThreshold(threshold)))
          ELSE Decide(scroll, driver, isVisible)
    /\ UNCHANGED <<driver, waitVars>>

\* The check with the lower threshold answers
RelaxedDone ==
    /\ scroll.pc = "relaxed"
    /\ scroll' =
          IF driver.failing THEN Settle(scroll, Rejected(DriverErrorMessage))
          ELSE Decide(scroll, driver,
                      FractionAnswer(driver,
                                     LowerThreshold(scroll.options.visibilityThreshold)))
    /\ UNCHANGED <<driver, waitVars>>

\* driver.centerElementInViewport settles
CenterDone ==
    /\ scroll.pc = "centering"
    /\ scroll' = IF driver.centerFails
                 THEN Settle(scroll, Rejected(CenterErrorMessage))
                 ELSE Settle(scroll, Resolved(NewWrapper))
    /\ UNCHANGED <<driver, waitVars>>

\* driver.scroll settles: sleep, or the catch block
ScrollDone ==
    LET error == driver.scrollError
        handling == IF error = Null THEN "sleep" ELSE OnScrollError(error.value) IN
    /\ scroll.pc = "scrolling"
    /\ scroll' =
          CASE handling = "sleep" ->
                 [scroll EXCEPT !.pc = "sleeping",
                                !.timer = EffectiveInterval(scroll.options),
                                !.sleeps = @ + 1]
            [] handling = "fallback" -> Issue(scroll, "fallback", Call("isVisible", ""))
            [] handling = "rethrow" -> Settle(scroll, Rejected(error.value))
    /\ UNCHANGED <<driver, waitVars>>

\* The isVisible check after a boundary error answers
FallbackDone ==
    /\ scroll.pc = "fallback"
    /\ scroll' = IF driver.failing THEN Settle(scroll, Rejected(DriverErrorMessage))
                 ELSE Settle(scroll, FallbackOutcome(driver.visible))
    /\ UNCHANGED <<driver, waitVars>>

\* The interval sleep is over: back to the head of the loop
ScrollSleepDone(durs) ==
    /\ scroll.pc = "sleeping"
    /\ scroll.timer = 0
    /\ \E dur \in durs : scroll' = ScrollHead(scroll, driver, scroll.elapsed, dur)
    /\ UNCHANGED <<driver, waitVars>>

\* The clock while the scroll-search sleeps or awaits the visibility check
ScrollTimePasses ==
    /\ scroll.pc \in {"sleeping", "checking"}
    /\ scroll.timer > 0
    /\ scroll' = [scroll EXCEPT !.elapsed = @ + scroll.timer, !.timer = 0]
    /\ UNCHANGED <<driver, waitVars>>

\* The caller has taken the settled promise's result
ScrollRelease ==
    /\ scroll.pc = "settled"
    /\ scroll' = [scroll EXCEPT !.pc = "idle", !.elapsed = 0, !.log = <<>>,
                                !.scrolls = 0, !.sleeps = 0, !.outcome = NotStarted]
    /\ UNCHANGED <<driver, waitVars>>

---------------------------------------------------------------------------
(* The backend of a scroll-search: what the driver implements, and its     *)
(* answers.                                                                *)

\* A driver that implements the optional methods in capabilities and was
\* told nothing about the element
ScrollDriver(capabilities) ==
    [visible |-> FALSE, enabled |-> FALSE, exists |-> FALSE, failing |-> FALSE,
     fraction |-> 0, scrollError |-> Null, centerFails |-> FALSE,
     canFraction |-> "isSubstantiallyVisible" \in capabilities,
     canScroll |-> "scroll" \in capabilities,
     canCenter |-> "centerElementInViewport" \in capabilities]

OptionalMethods == {"isSubstantiallyVisible", "scroll", "centerElementInViewport"}

InitScroll ==
    /\ driver \in {ScrollDriver(capabilities) : capabilities \in SUBSET OptionalMethods}
    /\ InitExec

\* The answers of the backend change
SetAnswer(field, value) ==
    /\ driver[field] # value
    /\ driver' = [driver EXCEPT ![field] = value]
    /\ UNCHANGED <<builders, execVars>>

---------------------------------------------------------------------------
(* SpecScroll: one scroll-search over a backend whose answers change       *)
(* between any two steps.  Thresholds and visible fractions are in         *)
(* thousandths.                                                            *)

MaxScrollTimeout == 4

ScrollTimeouts == {MaxScrollTimeout - 1, MaxScrollTimeout}

ScrollIntervals == {1}

Thresholds == {0, 900}

Fractions == {0, 630, 900}

ScrollErrors ==
    {Null, Str("cannot scroll further"), Str("Connection lost")}

ScrollOptionSets ==
    [timeout : ScrollTimeouts, interval : ScrollIntervals, useBasicVisibility : BOOLEAN]

NextScroll ==
    \/ \E v \in BOOLEAN : SetAnswer("visible", v)
    \/ \E f \in Fractions : SetAnswer("fraction", f)
    \/ \E error \in ScrollErrors : SetAnswer("scrollError", error)
    \/ \E c \in BOOLEAN : SetAnswer("centerFails", c)
    \/ \E f \in BOOLEAN : SetAnswer("failing", f)
    \/ \E options \in ScrollOptionSets : ScrollTo("w1", options)
    \/ \E threshold \in Thresholds : VisibilityThreshold(threshold)
    \/ \E center \in BOOLEAN : CenterInViewport(center)
    \/ ScrollExecute(ProbeDurs)
    \/ CheckDone
    \/ RelaxedDone
    \/ CenterDone
    \/ ScrollDone
    \/ FallbackDone
    \/ ScrollSleepDone(ProbeDurs)
    \/ ScrollTimePasses
    \/ ScrollRelease

SpecScroll == InitScroll /\ [][NextScroll]_vars

\* SpecTimeouts: scroll-searches whose timeout is 0 or positive, set through
\* the options or through timeout(), with an interval long enough to walk
\* through the whole default budget
LongInterval == 2500

ConfiguredTimeouts == {0, 2 * LongInterval}

NextTimeouts ==
    \/ \E v \in BOOLEAN : SetAnswer("visible", v)
    \/ \E timeout \in ConfiguredTimeouts :
          ScrollTo("w1", [timeout |-> timeout, interval |-> LongInterval])
    \/ \E timeout \in ConfiguredTimeouts : Timeout(timeout)
    \/ ScrollExecute(ProbeDurs)
    \/ CheckDone
    \/ ScrollDone
    \/ ScrollSleepDone(ProbeDurs)
    \/ ScrollTimePasses
    \/ ScrollRelease

SpecTimeouts == InitScroll /\ [][NextTimeouts]_vars

\* SpecRelax: scroll-searches with every visibility threshold from 0.01 to
\* 1 in hundredths, run into the second half of their budget
MaxHundredths == 100

RelaxThresholds == {10 * k : k \in 1..MaxHundredths}

NextRelax ==
    \/ \E f \in {0, 500, 1000} : SetAnswer("fraction", f)
    \/ ScrollTo("w1", [timeout |-> MaxScrollTimeout - 1, interval |-> 1])
    \/ \E threshold \in RelaxThresholds : VisibilityThreshold(threshold)
    \/ ScrollExecute({0})
    \/ CheckDone
    \/ RelaxedDone
    \/ ScrollDone
    \/ ScrollSleepDone({0})
    \/ ScrollTimePasses
    \/ ScrollRelease

SpecRelax == InitScroll /\ [][NextRelax]_vars

---------------------------------------------------------------------------
(* DetoxElementDriver.isSubstantiallyVisible: the fraction of the          *)
(* element's frame that lies on the screen between the status bar and the  *)
(* home indicator, against a threshold.  Thresholds are in thousandths,    *)
(* coordinates in points.                                                  *)

ScreenHeight == 812

ScreenWidth == 375

SafeAreaTop == 44

SafeAreaBottom == 34

DefaultThreshold == 750

Min(a, b) == IF a <= b THEN a ELSE b

\* DetoxElementDriver.isVisible: expect(element).toBeVisible() in a
\* try/catch that answers false
DetoxIsVisible(d) == ~d.failing /\ d.visible

\* return true when attributes.frame is missing
WithoutFrame(threshold) == TRUE

MeetsThresholdStrictly(visibleArea, totalArea, threshold) ==
    IF totalArea > 0 THEN visibleArea * 1000 > threshold * totalArea
    ELSE 0 > threshold

\* visibilityPercentage = totalArea > 0 ? visibleArea / totalArea : 0;
\* visibilityPercentage >= threshold
MeetsThreshold(visibleArea, totalArea, threshold) ==
    IF totalArea > 0 THEN visibleArea * 1000 >= threshold * totalArea
    ELSE 0 >= threshold

\* The estimate for an element with a frame
FrameEstimate(frame, threshold) ==
    LET elementTop == frame.y
        elementBottom == frame.y + frame.height
        elementLeft == frame.x
        elementRight == frame.x + frame.width
        screenBottom == ScreenHeight - SafeAreaBottom
        visibleTop == Max(elementTop, SafeAreaTop)
        visibleBottom == Min(elementBottom, screenBottom)
        visibleLeft == Max(elementLeft, 0)
        visibleRight == Min(elementRight, ScreenWidth)
        visibleArea == (visibleBottom - visibleTop) * (visibleRight - visibleLeft)
        totalArea == frame.height * frame.width IN
    IF elementBottom <= SafeAreaTop \/ elementTop >= screenBottom THEN FALSE
    ELSE IF visibleTop >= visibleBottom \/ visibleLeft >= visibleRight THEN FALSE
    ELSE MeetsThreshold(visibleArea, totalArea, threshold)

BasicVisibilityIgnored(isBasicallyVisible) == FALSE

\* if (!isBasicallyVisible) return false
NotBasicallyVisible(isBasicallyVisible) == ~isBasicallyVisible

\* The try block throws: element.getAttributes() rejects
EstimateThrows(d) == ~NotBasicallyVisible(DetoxIsVisible(d)) /\ d.attributesFail

\* The try block of isSubstantiallyVisible
TryEstimate(d, threshold) ==
    IF NotBasicallyVisible(DetoxIsVisible(d)) THEN FALSE
    ELSE IF d.frame = Null THEN WithoutFrame(threshold)
    ELSE FrameEstimate(d.frame, threshold)

\* isSubstantiallyVisible(selector, threshold): the try block, or in the
\* catch block the answer of isVisible
IsSubstantiallyVisible(d, threshold) ==
    IF EstimateThrows(d) THEN DetoxIsVisible(d) ELSE TryEstimate(d, threshold)

\* A call of isSubstantiallyVisible on the Detox driver settles
CallIsSubstantiallyVisible(threshold) ==
    /\ estimate' = [called |-> TRUE, threshold |-> threshold,
                    result |-> IsSubstantiallyVisible(driver, threshold)]
    /\ UNCHANGED <<driver, scroll, builders, pc, idx, elapsed, timer, calls, sleeps,
                   threw, slow, results, outcome, trace, caught, described, heap,
                   config, env, creation, iter, keyboard>>

\* The Detox backend: the element is not on the screen and has no frame
InitialDetoxBackend ==
    [visible |-> FALSE, enabled |-> FALSE, exists |-> FALSE, failing |-> FALSE,
     frame |-> Null, attributesFail |-> FALSE]

InitEstimator ==
    /\ driver = InitialDetoxBackend
    /\ InitExec

Frame(x, y, width, height) == [x |-> x, y |-> y, width |-> width, height |-> height]

\* Frames left of, across and inside the screen's edges and safe areas
Frames ==
    {Frame(x, y, width, height) :
        x \in {0 - 50, 0, ScreenWidth - 50, ScreenWidth},
        y \in {0, SafeAreaTop - 10, SafeAreaTop,
               ScreenHeight - SafeAreaBottom - 10, ScreenHeight - SafeAreaBottom},
        width \in {0, 100}, height \in {0, 20}}

EstimatorThresholds == {0, 500, 510, DefaultThreshold, 1000}

NextEstimator ==
    \/ \E v \in BOOLEAN : SetAnswer("visible", v)
    \/ \E f \in BOOLEAN : SetAnswer("failing", f)
    \/ \E f \in BOOLEAN : SetAnswer("attributesFail", f)
    \/ \E frame \in Frames \cup {Null} : SetAnswer("frame", frame)
    \/ \E threshold \in EstimatorThresholds : CallIsSubstantiallyVisible(threshold)

SpecEstimator == InitEstimator /\ [][NextEstimator]_vars

---------------------------------------------------------------------------
(* SpecReuse: one builder that is inspected, cleared, refilled and run     *)
(* again, with chains of up to MaxPair conditions of three kinds.          *)

NextReuse ==
    \/ \E d \in DriverStates : SetMockState(d)
    \/ \E w \in Wrappers : Wait(1, w)
    \/ \E o \in ChainOptions :
          /\ Idle(1)
          /\ Len(builders[1].conditions) < MaxPair
          /\ \/ ForVisible(1, o)
             \/ ForEnabled(1, o)
             \/ \E co \in ChainCustoms : ForCustom(1, co, o)
    \/ Idle(1) /\ ClearConditions(1)
    \/ GetConditionDescriptions(1)
    \/ Run(1, {0})
    \/ TimePasses

SpecReuse == Init /\ [][NextReuse]_vars

---------------------------------------------------------------------------
(* Object identity.  heap.objects are the arrays and option objects that   *)
(* exist, a reference is an index into it; heap.waits and heap.scrolls are *)
(* the builders obtained from wrappers, each with the reference it holds   *)
(* in this.conditions or this.options; heap.literals are the option        *)
(* objects the caller wrote.                                               *)

MaxObjects == 5

\* The reference of the object a [] or { ... } expression creates
Allocated(objects) == Len(objects) + 1

\* The caller writes an options literal
NewOptions(options) ==
    /\ Len(heap.objects) < MaxObjects
    /\ heap' = [heap EXCEPT !.objects = Append(@, options),
                            !.literals = @ \cup {Allocated(heap.objects)}]
    /\ UNCHANGED <<driver, builders, scroll, estimate, described, pc, idx, elapsed, timer,
                   calls, sleeps, threw, slow, results, outcome, trace, caught, config, env,
                   creation, iter, keyboard>>

\* wait(): new WaitBuilder(...), whose field initializer is conditions = []
NewWaitBuilder(w) ==
    /\ Len(heap.objects) < MaxObjects
    /\ Len(heap.waits) < MaxPair
    /\ heap' = [heap EXCEPT !.objects = Append(@, <<>>),
                            !.waits = Append(@, [wrapper |-> w,
                                                 conditions |-> Allocated(heap.objects)])]
    /\ UNCHANGED <<driver, builders, scroll, estimate, described, pc, idx, elapsed, timer,
                   calls, sleeps, threw, slow, results, outcome, trace, caught, config, env,
                   creation, iter, keyboard>>

\* forVisible() ... forCustom() on the b-th WaitBuilder: this.conditions.push
PushTo(b, kind) ==
    /\ b \in DOMAIN heap.waits
    /\ Len(heap.objects[heap.waits[b].conditions]) < MaxPair
    /\ heap' = [heap EXCEPT !.objects[heap.waits[b].conditions] =
                   Pushed(@, NewCondition(kind, NoConditionOptions, NoOptions,
                                          Len(@) + 1))]
    /\ UNCHANGED <<driver, builders, scroll, estimate, described, pc, idx, elapsed, timer,
                   calls, sleeps, threw, slow, results, outcome, trace, caught, config, env,
                   creation, iter, keyboard>>

\* clearConditions() on the b-th WaitBuilder: this.conditions = []
Reassign(b) ==
    /\ b \in DOMAIN heap.waits
    /\ Len(heap.objects) < MaxObjects
    /\ heap.objects[heap.waits[b].conditions] # <<>>
    /\ heap' = [heap EXCEPT !.objects = Append(@, <<>>),
                            !.waits[b].conditions = Allocated(heap.objects)]
    /\ UNCHANGED <<driver, builders, scroll, estimate, described, pc, idx, elapsed, timer,
                   calls, sleeps, threw, slow, results, outcome, trace, caught, config, env,
                   creation, iter, keyboard>>

OptionsFieldAliased(objects, passed) ==
    IF passed = 0 THEN Allocated(objects) ELSE passed

\* this.options = { direction: ..., ...options }: a new object
OptionsField(objects, passed) == Allocated(objects)

\* scrollTo(options): new ScrollBuilder(...); passed is the reference of the
\* caller's options object, 0 for scrollTo()
NewScrollBuilder(w, passed) ==
    /\ Len(heap.objects) < MaxObjects
    /\ Len(heap.scrolls) < MaxPair
    /\ passed \in heap.literals \cup {0}
    /\ heap' = [heap EXCEPT
                   !.objects = Append(@, MergeScrollOptions(
                                   IF passed = 0 THEN NoOptions ELSE heap.objects[passed])),
                   !.scrolls = Append(@, [wrapper |-> w,
                                          options |-> OptionsField(heap.objects, passed)])]
    /\ UNCHANGED <<driver, builders, scroll, estimate, described, pc, idx, elapsed, timer,
                   calls, sleeps, threw, slow, results, outcome, trace, caught, config, env,
                   creation, iter, keyboard>>

\* A setter of the b-th ScrollBuilder: this.options.<field> = value
AssignOption(b, field, value) ==
    /\ b \in DOMAIN heap.scrolls
    /\ heap' = [heap EXCEPT !.objects[heap.scrolls[b].options] =
                   [f \in DOMAIN @ \cup {field} |-> IF f = field THEN value ELSE @[f]]]
    /\ UNCHANGED <<driver, builders, scroll, estimate, described, pc, idx, elapsed, timer,
                   calls, sleeps, threw, slow, results, outcome, trace, caught, config, env,
                   creation, iter, keyboard>>

\* SpecFresh: up to MaxPair builders of each sort from one wrapper
OptionLiterals == {[timeout |-> MaxScrollTimeout]}

NextFresh ==
    \/ \E options \in OptionLiterals : NewOptions(options)
    \/ NewWaitBuilder("w1")
    \/ \E b \in 1..MaxPair : \E kind \in {"Visible", "Enabled"} : PushTo(b, kind)
    \/ \E b \in 1..MaxPair : Reassign(b)
    \/ \E passed \in 0..MaxObjects : NewScrollBuilder("w1", passed)
    \/ \E b \in 1..MaxPair : \E timeout \in ScrollTimeouts :
          AssignOption(b, "timeout", timeout)

SpecFresh == Init /\ [][NextFresh]_vars

---------------------------------------------------------------------------
(* E2EWrapper: the static framework configuration                          *)

\* enum TestFramework
TestFramework == {"detox", "appium", "playwright", "cypress"}

\* A driver or element object handed to the configuration
Handle(id) == [type |-> "object", id |-> id]

\* JavaScript truthiness of an optional driver argument
Given(argument) == argument # Null

UpperCase == "ABCDEFGHIJKLMNOPQRSTUVWXYZ"

LowerCase == "abcdefghijklmnopqrstuvwxyz"

\* One character of String.prototype.toLowerCase
LowerChar(c) ==
    IF \E i \in 1..Len(UpperCase) : SubSeq(UpperCase, i, i) = c
    THEN LET i == CHOOSE j \in 1..Len(UpperCase) : SubSeq(UpperCase, j, j) = c
         IN  SubSeq(LowerCase, i, i)
    ELSE c

RECURSIVE ToLowerCase(_)
\* String.prototype.toLowerCase, character by character
ToLowerCase(s) ==
    IF Len(s) = 0 THEN ""
    ELSE LowerChar(SubSeq(s, 1, 1)) \o ToLowerCase(SubSeq(s, 2, Len(s)))

\* process.env.E2E_FRAMEWORK read without folding its letter case
FrameworkEnvAsWritten(value) == value

\* process.env.E2E_FRAMEWORK?.toLowerCase()
FrameworkEnv(value) ==
    IF value = Null THEN Null ELSE Str(ToLowerCase(value.value))

\* The configuration after setFramework(framework, driver)
WithFramework(c, framework, appiumDriver) ==
    LET named == [c EXCEPT !.framework = framework]
    IN  IF framework = "appium" /\ Given(appiumDriver)
        THEN [named EXCEPT !.appiumDriver = appiumDriver]
        ELSE named

\* The switch of configureFromEnvironment
Switch(c, frameworkEnv) ==
    CASE frameworkEnv = Str("detox")  -> WithFramework(c, "detox", Null)
      [] frameworkEnv = Str("appium") -> WithFramework(c, "appium", Null)
      [] OTHER                        -> c

\* What the static configuration methods never touch
configUnchanged ==
    <<driver, builders, scroll, estimate, described, heap, pc, idx, elapsed, timer,
      calls, sleeps, threw, slow, results, outcome, trace, caught, creation, iter, keyboard>>

\* static configure(config)
Configure(c) ==
    /\ config' = c
    /\ UNCHANGED <<env, configUnchanged>>

\* static setFramework(framework, driver?)
SetFramework(framework, appiumDriver) ==
    /\ config' = WithFramework(config, framework, appiumDriver)
    /\ UNCHANGED <<env, configUnchanged>>

\* The test harness assigns or deletes process.env.E2E_FRAMEWORK
SetEnv(value) ==
    /\ env' = [env EXCEPT !.E2E_FRAMEWORK = value]
    /\ UNCHANGED <<config, configUnchanged>>

\* Calls of configureFromEnvironment in one run
MaxReads == 2

\* static configureFromEnvironment()
ConfigureFromEnvironment ==
    /\ env.reads < MaxReads
    /\ config' = Switch(config, FrameworkEnv(env.E2E_FRAMEWORK))
    /\ env' = [env EXCEPT !.reads = @ + 1,
                          !.frameworkEnv = FrameworkEnv(env.E2E_FRAMEWORK)]
    /\ UNCHANGED configUnchanged

\* SpecConfig: any sequence of configure, setFramework and environment
\* changes around calls of configureFromEnvironment
Handles == {Null, Handle("driverA"), Handle("driverB")}

Configs ==
    [framework : TestFramework, appiumDriver : {Null, Handle("driverA")},
     detoxElement : {Null, Handle("elementA")}]

EnvValues ==
    {Null, Str("detox"), Str("DETOX"), Str("Detox"), Str("appium"),
     Str("APPIUM"), Str("aPPiuM"), Str(""), Str("playwright"),
     Str(" detox"), Str("invalid-framework")}

NextConfig ==
    \/ \E framework \in TestFramework : \E appiumDriver \in Handles :
          SetFramework(framework, appiumDriver)
    \/ \E c \in Configs : Configure(c)
    \/ \E value \in EnvValues : SetEnv(value)
    \/ ConfigureFromEnvironment

SpecConfig == Init /\ [][NextConfig]_vars

---------------------------------------------------------------------------
(* E2EWrapper.create: the framework-agnostic factory                       *)

\* new E2EWrapper(selector, new <Framework>ElementDriver(handle))
Created(framework, handle) ==
    [type |-> "created", framework |-> framework, handle |-> handle, message |-> ""]

\* throw new Error(message)
Thrown(message) ==
    [type |-> "thrown", framework |-> "", handle |-> Null, message |-> message]

\* JavaScript truthiness of an optional framework name
Named(framework) == framework # ""

\* a || b on optional framework names
OrFramework(a, b) == IF Named(a) THEN a ELSE b

\* The first operand alone, with no fallback
FirstHandle(a, b) == a

\* a || b on optional driver objects
OrHandle(a, b) == IF Given(a) THEN a ELSE b

\* The configured framework, whatever the call's options say
ConfiguredFramework(c, options) == c.framework

\* const framework = options?.framework || this.config.framework
EffectiveFramework(c, options) == OrFramework(options.framework, c.framework)

AppiumDriverMissingMessage ==
    "Appium driver must be provided either in configure() or create() options"

UnsupportedFrameworkMessage(framework) ==
    "Unsupported framework: " \o framework
        \o ". Use TestFramework.DETOX or TestFramework.APPIUM"

\* The switch of create: what the call returns or throws
CreateOutcome(c, options) ==
    LET framework == EffectiveFramework(c, options)
        appiumDriver == OrHandle(options.driver, c.appiumDriver)
    IN  CASE framework = "detox" ->
               Created("detox", OrHandle(options.detoxElement, c.detoxElement))
          [] framework = "appium" ->
               IF ~Given(appiumDriver) THEN Thrown(AppiumDriverMissingMessage)
               ELSE Created("appium", appiumDriver)
          [] OTHER -> Thrown(UnsupportedFrameworkMessage(framework))

\* static create(selector, options?)
Create(options) ==
    /\ creation' = [called |-> TRUE, options |-> options,
                    outcome |-> CreateOutcome(config, options)]
    /\ UNCHANGED <<config, env, driver, builders, scroll, estimate, described, heap,
                   pc, idx, elapsed, timer, calls, sleeps, threw, slow, results,
                   outcome, trace, caught, iter, keyboard>>

\* SpecCreate: create calls, with and without options, between any
\* configure, setFramework and configureFromEnvironment calls
CreateOptions ==
    [framework : {"", "detox", "appium", "cypress"},
     driver : {Null, Handle("driverB")},
     detoxElement : {Null, Handle("elementB")}]

CreateConfigs ==
    [framework : {"detox", "appium", "unsupported"},
     appiumDriver : {Null, Handle("driverA")},
     detoxElement : {Null, Handle("elementA")}]

CreateEnvValues == {Null, Str("APPIUM"), Str("cypress")}

NextCreate ==
    \/ \E framework \in {"detox", "appium", "playwright"} :
          \E appiumDriver \in {Null, Handle("driverA")} :
             SetFramework(framework, appiumDriver)
    \/ \E c \in CreateConfigs : Configure(c)
    \/ \E value \in CreateEnvValues : SetEnv(value)
    \/ ConfigureFromEnvironment
    \/ \E options \in CreateOptions : Create(options)

SpecCreate == Init /\ [][NextCreate]_vars

---------------------------------------------------------------------------
(* DetoxElementDriver.dismissKeyboard: the device calls it awaits, one     *)
(* after the other, each of which resolves or rejects.                     *)

\* The device call that is awaited at each position of the method
AwaitedCall(position) ==
    CASE position = "disabling" -> "disableSynchronization"
      [] position = "tapping"   -> "tap"
      [] position = "enabling"  -> "enableSynchronization"
      [] position = "fallback"  -> "tap"

\* dismissKeyboard returns: its promise resolves, and so does typeText's
\* when typeText awaited it
KeyboardReturns(k) ==
    [k EXCEPT !.pc = "returned", !.outcome = Resolved(""),
              !.typed = IF @ = Pending THEN Resolved("") ELSE @]

\* dismissKeyboard up to its first await: nothing to do without global.device
KeyboardEnters(k) ==
    IF k.device THEN [k EXCEPT !.pc = "disabling", !.outcome = Pending]
    ELSE KeyboardReturns(k)

\* The method has settled the awaited call and runs on to its next await or
\* to its end: the try block while the calls resolve, the catch block with
\* the fallback tap after the first rejection, the inner catch after that
KeyboardNext(k, ok) ==
    LET settled == [k EXCEPT !.log = Append(@, Call(AwaitedCall(k.pc),
                                                     IF ok THEN "resolved" ELSE "rejected"))]
        failed == IF k.device THEN [settled EXCEPT !.pc = "fallback"]
                  ELSE KeyboardReturns(settled)
    IN  CASE k.pc = "disabling" ->
               IF ok THEN [settled EXCEPT !.pc = "tapping", !.synchronized = FALSE,
                                          !.disabled = TRUE]
               ELSE failed
          [] k.pc = "tapping" ->
               IF ok THEN [settled EXCEPT !.pc = "delay"] ELSE failed
          [] k.pc = "enabling" ->
               IF ok THEN KeyboardReturns([settled EXCEPT !.synchronized = TRUE])
               ELSE failed
          [] k.pc = "fallback" -> KeyboardReturns(settled)

\* options.dismissKeyboard !== false
ShouldDismissKeyboard(option) == option.type # "boolean" \/ option.value

keyboardUnchanged ==
    <<driver, builders, scroll, estimate, described, heap, config, env, creation, iter,
      pc, idx, elapsed, timer, calls, sleeps, threw, slow, results, outcome, trace,
      caught>>

\* async dismissKeyboard(), called by the test itself
DismissKeyboard ==
    /\ keyboard.pc = "idle"
    /\ keyboard' = KeyboardEnters([keyboard EXCEPT !.disabled = FALSE, !.log = <<>>])
    /\ UNCHANGED keyboardUnchanged

\* async typeText(selector, text, options): up to await element.typeText
TypeText(option) ==
    /\ keyboard.pc = "idle"
    /\ keyboard' = [keyboard EXCEPT !.pc = "typing", !.typed = Pending,
                                    !.option = option, !.disabled = FALSE, !.log = <<>>]
    /\ UNCHANGED keyboardUnchanged

\* element.typeText resolves (ok) or rejects; typeText dismisses the keyboard
\* after it unless options.dismissKeyboard is false
ElementSettles(ok) ==
    /\ keyboard.pc = "typing"
    /\ keyboard' =
          IF ~ok THEN [keyboard EXCEPT !.pc = "returned",
                                       !.typed = Rejected("typeText")]
          ELSE IF ShouldDismissKeyboard(keyboard.option) THEN KeyboardEnters(keyboard)
          ELSE [keyboard EXCEPT !.pc = "returned", !.typed = Resolved("")]
    /\ UNCHANGED keyboardUnchanged

\* The awaited device call resolves (ok) or rejects
DeviceSettles(ok) ==
    /\ keyboard.pc \in {"disabling", "tapping", "enabling", "fallback"}
    /\ keyboard' = KeyboardNext(keyboard, ok)
    /\ UNCHANGED keyboardUnchanged

\* The 300 ms delay is over: enableSynchronization is called
DelayDone ==
    /\ keyboard.pc = "delay"
    /\ keyboard' = [keyboard EXCEPT !.pc = "enabling"]
    /\ UNCHANGED keyboardUnchanged

\* The caller has taken the settled promise
KeyboardRelease ==
    /\ keyboard.pc = "returned"
    /\ keyboard' = [keyboard EXCEPT !.pc = "idle", !.outcome = NotStarted,
                                    !.typed = NotStarted, !.option = Null]
    /\ UNCHANGED keyboardUnchanged

\* The test run sets or removes global.device, or turns the device's
\* synchronization on or off itself, between two calls
SetDevice(present, synchronized) ==
    /\ keyboard.pc = "idle"
    /\ keyboard' = [keyboard EXCEPT !.device = present, !.synchronized = synchronized]
    /\ UNCHANGED keyboardUnchanged

\* options.dismissKeyboard: not given, true or false
DismissOptions == {Null, Bool(TRUE), Bool(FALSE)}

NextKeyboard ==
    \/ \E present, synchronized \in BOOLEAN : SetDevice(present, synchronized)
    \/ DismissKeyboard
    \/ \E option \in DismissOptions : TypeText(option)
    \/ \E ok \in BOOLEAN : ElementSettles(ok)
    \/ \E ok \in BOOLEAN : DeviceSettles(ok)
    \/ DelayDone
    \/ KeyboardRelease

SpecKeyboard == Init /\ [][NextKeyboard]_vars

---------------------------------------------------------------------------
(* Properties of the chain (Spec)                                          *)

Conditions(b) == builders[b].conditions

KindsOf(b) == [i \in DOMAIN Conditions(b) |-> Conditions(b)[i].kind]

AllTrue(b) == \A i \in DOMAIN results[b] : results[b][i] = "true"

HasFalse(b) == \E i \in DOMAIN results[b] : results[b][i] = "false"

FirstFalse(b) ==
    CHOOSE i \in DOMAIN results[b] :
        results[b][i] = "false" /\ \A j \in 1..(i - 1) : results[b][j] # "false"

CallsBefore(b, i) == IF i \in DOMAIN calls[b] THEN calls[b][i] ELSE 0

\* C1: when the k-th condition of a chain of N is the first whose execute()
\* returns false, no predicate call is ever issued for conditions k+1..N
\* and none of them returns anything.
C1_ShortCircuit ==
    \A b \in AllBuilders : \A k \in DOMAIN results[b] :
        results[b][k] = "false" =>
            \A j \in DOMAIN calls[b] :
                j > k => calls[b][j] = 0 /\ results[b][j] = "none"

C1_Witness ==
    /\ pc[1] = "settled"
    /\ Len(Conditions(1)) = 3
    /\ results[1] = <<"true", "false", "none">>
    /\ calls[1][2] > 0
    /\ calls[1][3] = 0

C2_State ==
    \A b \in AllBuilders : \A i \in DOMAIN calls[b] :
        /\ i > idx[b] => calls[b][i] = 0 /\ results[b][i] = "none"
        /\ i < idx[b] => results[b][i] = "true"
        /\ calls[b][i] > 0 =>
              /\ \A j \in 1..(i - 1) : results[b][j] = "true"
              /\ Conditions(b)[i].serial = i

C2_Step ==
    \A b \in AllBuilders : \A i \in DOMAIN calls'[b] :
        calls'[b][i] > CallsBefore(b, i) =>
            /\ i = idx'[b]
            /\ calls'[b][i] = CallsBefore(b, i) + 1
            /\ \A j \in 1..(i - 1) : results'[b][j] = "true" /\ calls'[b][j] = CallsBefore(b, j)
            /\ \A j \in DOMAIN calls'[b] : j > i => calls'[b][j] = 0

\* C2: execute() evaluates the conditions in the order they were appended
\* and one at a time: a predicate call is issued only for the condition the
\* iterator stands on, that condition is the i-th appended, every condition
\* before it has returned true and none after it has been called.
C2_InOrder == []C2_State /\ [][C2_Step]_vars

C2_Witness ==
    /\ pc[1] = "probing"
    /\ idx[1] = 3
    /\ KindsOf(1) = <<"Enabled", "Custom", "Enabled">>
    /\ calls[1][2] = 2
    /\ calls[1][3] = 1

\* C3: execute() on a builder whose list is empty settles at once with the
\* "No wait conditions specified" error: no predicate call, no sleep, no
\* time spent, never a resolved promise.
C3_EmptyFails ==
    \A b \in AllBuilders :
        (builders[b].created /\ Conditions(b) = <<>> /\ pc[b] # "idle") =>
            /\ pc[b] = "settled"
            /\ outcome[b] = Rejected(NoConditionsMessage)
            /\ calls[b] = <<>>
            /\ sleeps[b] = 0
            /\ elapsed[b] = 0
            /\ timer[b] = 0

C3_Witness ==
    /\ pc[1] = "settled"
    /\ Conditions(1) = <<>>
    /\ outcome[1].type = "rejected"

---------------------------------------------------------------------------
(* Properties of two orderings of one pair of conditions (SpecOrder)       *)

VisibleThenEnabled == <<"Visible", "Enabled">>

EnabledThenVisible == <<"Enabled", "Visible">>

\* builder 1 ran forVisible().forEnabled() and builder 2 ran
\* forEnabled().forVisible(), both to the end, on the one driver state
BothDone ==
    /\ pc[1] = "settled" /\ KindsOf(1) = VisibleThenEnabled
    /\ pc[2] = "settled" /\ KindsOf(2) = EnabledThenVisible

NamesFirstFailing(b) ==
    /\ outcome[b].type = "rejected"
    /\ HasFalse(b)
    /\ outcome[b].message =
          ConditionFailedMessage(GetDescription(Conditions(b)[FirstFalse(b)]))

BothSucceed == \A b \in AllBuilders : outcome[b] = Resolved(builders[b].wrapper)

\* C6 as stated: with every probe true both orderings succeed; with
\* isEnabled true and isVisible false both orderings fail, each names its
\* first failing condition, and the two failure messages differ.
C6_Original ==
    BothDone =>
        /\ driver.visible /\ driver.enabled => BothSucceed
        /\ driver.enabled /\ ~driver.visible =>
              /\ NamesFirstFailing(1)
              /\ NamesFirstFailing(2)
              /\ outcome[1].message # outcome[2].message

\* C6 (amended): with every probe true both orderings succeed; with
\* isEnabled true and isVisible false both orderings fail, each names its
\* first failing condition, and that is the visibility condition in both
\* orderings (the messages are equal); the messages differ only when both
\* probes are false.
C6_OrderPreserved ==
    BothDone =>
        /\ driver.visible /\ driver.enabled => BothSucceed
        /\ driver.enabled /\ ~driver.visible =>
              /\ NamesFirstFailing(1)
              /\ NamesFirstFailing(2)
              /\ outcome[1].message = outcome[2].message
              /\ outcome[1].message =
                    "Wait condition failed: Wait for element to be visible"
              /\ results[1] = <<"false", "none">>
              /\ results[2] = <<"true", "false">>
        /\ ~driver.enabled /\ ~driver.visible =>
              /\ NamesFirstFailing(1)
              /\ NamesFirstFailing(2)
              /\ outcome[1].message # outcome[2].message

C6_Witness ==
    /\ BothDone
    /\ driver.enabled /\ ~driver.visible
    /\ outcome[1].type = "rejected"
    /\ outcome[2].type = "rejected"
    /\ calls[2][1] = 1
    /\ calls[2][2] > 1

---------------------------------------------------------------------------
(* Properties of one condition's polling loop (SpecCond)                   *)

TheCondition(b) == Conditions(b)[1]

\* the condition's execute() has returned (the chain may have settled since)
Returned(b) == pc[b] \in {"returned", "settled"} /\ Len(results[b]) = 1

\* this step is the end of a driver call of builder b
ProbeEnds(b) == pc[b] = "probing" /\ pc'[b] # "probing"

C7_State ==
    \A b \in AllBuilders :
        /\ \A i \in DOMAIN results[b] : results[b][i] # "threw"
        /\ outcome[b].type = "rejected" => outcome[b].message # DriverErrorMessage
        /\ Returned(b) => results[b][1] \in {"true", "false"}
        /\ Returned(b) /\ results[b][1] = "false" =>
              elapsed[b] >= TheCondition(b).options.timeout

C7_Step ==
    \A b \in AllBuilders :
        ProbeEnds(b) /\ driver.failing =>
            /\ pc'[b] = "sleeping"
            /\ sleeps'[b] = sleeps[b] + 1
            /\ timer'[b] = TheCondition(b).options.interval
            /\ results'[b] = results[b]
            /\ outcome'[b] = Pending

C8_State ==
    \A b \in AllBuilders :
        Returned(b) /\ results[b][1] = "true" =>
            /\ sleeps[b] = calls[b][1] - 1
            /\ ~slow[b] =>
                  /\ elapsed[b] = (calls[b][1] - 1) * TheCondition(b).options.interval
                  /\ elapsed[b] < TheCondition(b).options.timeout

C8_Step ==
    \A b \in AllBuilders :
        /\ ProbeEnds(b) /\ ProbeOutcome(TheCondition(b), driver) = "true" =>
              /\ pc'[b] = "returned"
              /\ results'[b][1] = "true"
              /\ <<calls'[b], sleeps'[b], elapsed'[b]>> = <<calls[b], sleeps[b], elapsed[b]>>
        /\ Returned(b) /\ pc'[b] \in {"returned", "settled"} =>
              <<calls'[b], sleeps'[b], elapsed'[b]>> = <<calls[b], sleeps[b], elapsed[b]>>

\* C8: the condition returns true in the very poll whose predicate call
\* returns true, with no further call and no further sleep; when that is
\* the n-th poll and the calls take no time, exactly n-1 interval sleeps
\* have passed (elapsed = (n-1) * interval), less than the timeout.
C8_EarlyExit == []C8_State /\ [][C8_Step]_vars

C8_Witness ==
    /\ Returned(1)
    /\ results[1][1] = "true"
    /\ ~slow[1]
    /\ calls[1][1] = 3
    /\ sleeps[1] = 2
    /\ TheCondition(1).options.interval = 1
    /\ TheCondition(1).options.timeout = MaxTimeout
    /\ elapsed[1] = 2

\* C9: with predicate calls that take no time, a condition whose predicate
\* never returns true returns false at an elapsed time t with
\* timeout <= t < timeout + interval, for every timeout > 0, interval > 0.
C9_TimeoutWindow ==
    \A b \in AllBuilders :
        LET o == TheCondition(b).options IN
        Returned(b) /\ results[b][1] = "false" /\ ~slow[b] /\ o.timeout > 0 =>
            /\ o.timeout <= elapsed[b]
            /\ elapsed[b] < o.timeout + o.interval

C9_Witness ==
    /\ Returned(1)
    /\ results[1][1] = "false"
    /\ ~slow[1]
    /\ TheCondition(1).options.timeout = 3
    /\ TheCondition(1).options.interval = 2
    /\ elapsed[1] = 4
    /\ calls[1][1] = 2

\* C10 as stated: a condition whose timeout is smaller than its interval
\* makes exactly one predicate attempt, for every timeout >= 0 (timeout = 0
\* included).
C10_Original ==
    \A b \in AllBuilders :
        LET o == TheCondition(b).options IN
        Returned(b) /\ o.timeout >= 0 /\ o.timeout < o.interval =>
            calls[b][1] = 1

\* C10 (amended): a condition with 0 < timeout < interval makes exactly one
\* predicate attempt; a condition with timeout = 0 makes none and returns
\* false at once, without a sleep.
C10_OneAttempt ==
    \A b \in AllBuilders :
        LET o == TheCondition(b).options IN
        Returned(b) /\ o.timeout < o.interval =>
            /\ o.timeout > 0 => calls[b][1] = 1 /\ sleeps[b] <= 1
            /\ o.timeout = 0 =>
                  /\ calls[b][1] = 0
                  /\ sleeps[b] = 0
                  /\ elapsed[b] = 0
                  /\ results[b][1] = "false"

C10_Witness ==
    /\ Returned(1)
    /\ TheCondition(1).options.timeout = 1
    /\ TheCondition(1).options.interval = 2
    /\ results[1][1] = "false"
    /\ calls[1][1] = 1
    /\ sleeps[1] = 1
    /\ elapsed[1] >= 2

---------------------------------------------------------------------------
(* Properties of one CustomCondition's poll (SpecCustom, SpecValues)       *)

\* builder b is polling (or has polled) a CustomCondition
IsCustom(b) == Len(Conditions(b)) = 1 /\ TheCondition(b).kind = "Custom"

CustomOf(b) == TheCondition(b).conditionOptions

\* this step is the end of a poll of builder b's CustomCondition
CustomPollEnds(b) == IsCustom(b) /\ ProbeEnds(b)

\* the backend answers the existence check, with this answer
ExistsAnswers(answer) == ~Throws(driver, "exists") /\ driver.exists = answer

MethodsOf(calls_) == {calls_[i].method : i \in DOMAIN calls_}

C11_State ==
    \A b \in AllBuilders :
        IsCustom(b) =>
            /\ \A i \in DOMAIN results[b] : results[b][i] # "threw"
            /\ outcome[b].type = "rejected" =>
                  outcome[b] = Rejected(ConditionFailedMessage(GetDescription(TheCondition(b))))
            /\ Returned(b) /\ results[b][1] = "false" =>
                  elapsed[b] >= TheCondition(b).options.timeout

C11_Step ==
    \A b \in AllBuilders :
        CustomPollEnds(b) =>
            /\ trace'[b] # <<>>
            /\ trace'[b][1] = Call("exists", "")
            /\ \A i \in DOMAIN trace'[b] : i > 1 => trace'[b][i].method # "exists"
            /\ ExistsAnswers(FALSE) =>
                  /\ trace'[b] = <<Call("exists", "")>>
                  /\ pc'[b] = "sleeping"
                  /\ results'[b] = results[b]
                  /\ caught'[b] = caught[b]

\* C11: every poll of a CustomCondition calls driver.exists first; when it
\* answers false the poll is not met and issues no getAttribute, getText,
\* getProperty, getElement or predicate call; the condition then sleeps
\* and polls again, and ends by returning false at the timeout, never by an
\* error.
C11_ExistsFirst == []C11_State /\ [][C11_Step]_vars

C11_Witness ==
    /\ IsCustom(1)
    /\ Returned(1)
    /\ results[1][1] = "false"
    /\ calls[1][1] = 2
    /\ ~caught[1]
    /\ ~driver.exists
    /\ driver.throws = {}
    /\ DOMAIN CustomOf(1) = {"hasAttribute"}
    /\ driver.attributes["data-status"] = Str("active")
    /\ outcome[1] = Pending

\* The priority order of the fields, as the claims state it
FieldOrder == <<"hasClassName", "hasAttribute", "hasText", "hasProperty", "custom">>

\* The first field of FieldOrder that builder b's CustomSpec holds
FirstField(co) ==
    FieldOrder[CHOOSE i \in DOMAIN FieldOrder :
                  /\ FieldOrder[i] \in DOMAIN co
                  /\ \A j \in 1..(i - 1) : FieldOrder[j] \notin DOMAIN co]

\* The CustomSpec that holds only field f of co
Only(co, f) == [g \in {f} |-> co[g]]

\* The calls a poll may issue for field f alone, after the existence check
CallsFor(co, f) ==
    CASE f = "hasClassName" -> {Call("getAttribute", "class")}
      [] f = "hasAttribute" -> {Call("getAttribute", co.hasAttribute.name)}
      [] f = "hasText"      -> {Call("getText", "")}
      [] f = "hasProperty"  -> {Call("getProperty", co.hasProperty.name)}
      [] f = "custom"       -> {Call("getElement", ""), Call("custom", "")}

\* What the state after the end of a poll shows of the poll's result
PollResult(b) == IF pc'[b] = "returned" THEN results'[b][1] ELSE "false"

\* the poll that ends in this step was decided by field f alone: it issued
\* the existence check and f's calls only, and ended as a condition that
\* holds nothing but f would end
DecidedBy(b, f) ==
    /\ Len(trace'[b]) >= 2
    /\ \A i \in 2..Len(trace'[b]) : trace'[b][i] \in CallsFor(CustomOf(b), f)
    /\ PollResult(b) = CustomPoll(Only(CustomOf(b), f), driver).end
    /\ pc'[b] = (IF PollResult(b) = "true" THEN "returned" ELSE "sleeping")

\* C12: when a CustomSpec holds several fields, a poll on an existing
\* element evaluates only the first of them in the order hasClassName,
\* hasAttribute, hasText, hasProperty, custom: the poll's result is that
\* check's result and the other fields cause no driver call.
C12_FirstFieldOnly ==
    [][\A b \in AllBuilders :
          CustomPollEnds(b) /\ ExistsAnswers(TRUE) /\ DOMAIN CustomOf(b) # {} =>
              DecidedBy(b, FirstField(CustomOf(b)))]_vars

C12_Witness ==
    /\ IsCustom(1)
    /\ DOMAIN CustomOf(1) = {"hasAttribute", "hasText", "custom"}
    /\ pc[1] = "sleeping"
    /\ calls[1][1] = 1
    /\ trace[1] = <<Call("exists", ""), Call("getAttribute", "data-status")>>
    /\ driver.exists
    /\ driver.throws = {}
    /\ driver.attributes["data-status"] = Null
    /\ driver.text = "Click me"

\* C13 as stated: when a CustomSpec holds the custom predicate together
\* with a structural field, the custom predicate is the check a poll
\* evaluates and the one that decides the poll's result.
C13_Original ==
    [][\A b \in AllBuilders :
          /\ CustomPollEnds(b)
          /\ ExistsAnswers(TRUE)
          /\ "custom" \in DOMAIN CustomOf(b)
          /\ DOMAIN CustomOf(b) # {"custom"}
          => DecidedBy(b, "custom")]_vars

\* C13 (amended): when a CustomSpec holds the custom predicate together
\* with a structural field, the structural field takes precedence: the poll
\* neither fetches the element nor calls the predicate, and its result is
\* the result the CustomSpec without the predicate gives; the predicate is
\* evaluated only when it is the only field.
C13_StructuralFirst ==
    [][\A b \in AllBuilders :
          CustomPollEnds(b) /\ ExistsAnswers(TRUE) /\ "custom" \in DOMAIN CustomOf(b) =>
              LET co == CustomOf(b)
                  structural == [f \in DOMAIN co \ {"custom"} |-> co[f]] IN
              IF DOMAIN co = {"custom"}
              THEN Call("getElement", "") \in {trace'[b][i] : i \in DOMAIN trace'[b]}
              ELSE /\ MethodsOf(trace'[b]) \cap {"getElement", "custom"} = {}
                   /\ PollResult(b) = CustomPoll(structural, driver).end]_vars

C13_Witness ==
    /\ IsCustom(1)
    /\ DOMAIN CustomOf(1) = {"hasText", "custom"}
    /\ CustomOf(1).custom = "alwaysTrue"
    /\ pc[1] = "sleeping"
    /\ trace[1] = <<Call("exists", ""), Call("getText", "")>>
    /\ driver.exists
    /\ driver.throws = {}
    /\ driver.text = ""

---------------------------------------------------------------------------
(* SpecValues: one CustomCondition that holds hasAttribute (without a      *)
(* value, with a value, with the empty value) or hasText, over the values  *)
(* a driver can answer with; no call rejects.                              *)

ExpectedValues == {"", "active"}

ExpectedTexts == {"", "Click", "click", "me", "Click me!"}

ValueSpecs ==
    {[hasAttribute |-> [name |-> "data-status"]]}
    \cup {[hasAttribute |-> [name |-> "data-status", value |-> v]] : v \in ExpectedValues}
    \cup {[hasText |-> t] : t \in ExpectedTexts}

AnsweredAttributes == {Null, Str(""), Str("active"), Str("Active"), Str("inactive")}

AnsweredTexts == {"", "Click me", "click me"}

NextValues ==
    \/ \E e \in BOOLEAN : SetMockState([driver EXCEPT !.exists = e])
    \/ \E v \in AnsweredAttributes : SetMockAttribute("data-status", v)
    \/ \E t \in AnsweredTexts : SetMockText(t)
    \/ BuildCustom(1, ValueSpecs)
    \/ Run(1, {0})
    \/ TimePasses

SpecValues == InitCustom /\ [][NextValues]_vars

C15_TextContains ==
    [][\A b \in AllBuilders :
          CustomPollEnds(b) /\ ExistsAnswers(TRUE) /\ "hasText" \in DOMAIN CustomOf(b) =>
              LET expected == CustomOf(b).hasText
                  text == driver.text
                  contains == \E i \in 0..Len(text) : \E j \in i..Len(text) :
                                  SubSeq(text, i + 1, j) = expected IN
              /\ contains <=> pc'[b] = "returned" /\ results'[b][1] = "true"
              /\ ~contains <=> pc'[b] = "sleeping"]_vars

C16_State ==
    \A b \in AllBuilders :
        IsCustom(b) =>
            /\ ~threw[b]
            /\ \A i \in DOMAIN results[b] : results[b][i] \in {"none", "true", "false"}
            /\ outcome[b].type = "rejected" => outcome[b].message # DriverErrorMessage

C16_Step ==
    \A b \in AllBuilders :
        CustomPollEnds(b) /\ (\E i \in DOMAIN trace'[b] : Throws(driver, trace'[b][i].method)) =>
            /\ caught'[b]
            /\ ~threw'[b]
            /\ pc'[b] = "sleeping"
            /\ sleeps'[b] = sleeps[b] + 1
            /\ timer'[b] = TheCondition(b).options.interval
            /\ results'[b] = results[b]
            /\ outcome'[b] = Pending

---------------------------------------------------------------------------
(* Properties of the scroll-search (SpecScroll) *)

\* execute() of the ScrollBuilder is running or has settled, and the
\* current iteration has issued driver calls
InIteration == scroll.created /\ scroll.pc # "idle" /\ Len(scroll.log) > 0

\* The driver calls of the current iteration named method
LoggedCalls(method) == {i \in 1..Len(scroll.log) : scroll.log[i].method = method}

\* The call c is method(argument)
IsCall(c, method, argument) == c.method = method /\ c.name = argument

\* C17: the visibility check of an iteration of the scroll-search is
\* isSubstantiallyVisible(threshold) iff useBasicVisibility is false, the
\* visibility threshold is above 0 and the driver implements the method; in
\* every other iteration the check is isVisible and isSubstantiallyVisible
\* is not called at all.
C17_EnhancedIffConfigured ==
    InIteration =>
        IF /\ ~scroll.options.useBasicVisibility
           /\ scroll.options.visibilityThreshold > 0
           /\ driver.canFraction
        THEN IsCall(scroll.log[1], "isSubstantiallyVisible",
                    scroll.options.visibilityThreshold)
        ELSE /\ IsCall(scroll.log[1], "isVisible", "")
             /\ LoggedCalls("isSubstantiallyVisible") = {}

C17_Witness ==
    /\ InIteration
    /\ scroll.pc = "checking"
    /\ scroll.scrolls > 0
    /\ IsCall(scroll.log[1], "isSubstantiallyVisible", 900)

\* The driver answers the visibility check of an iteration that checks the
\* fraction against 0.9, and the element's fraction is 0.63: not visible at
\* 0.9, visible at 0.9 * 0.7
PartlyVisibleAnswer ==
    /\ scroll.pc = "checking"
    /\ scroll'.pc # "checking"
    /\ IsCall(scroll.log[1], "isSubstantiallyVisible", 900)
    /\ driver.fraction = 630
    /\ driver.canScroll
    /\ ~driver.failing

\* The driver answers the relaxed check for that element
PartlyVisibleRelaxedAnswer ==
    /\ scroll.pc = "relaxed"
    /\ scroll'.pc # "relaxed"
    /\ driver.fraction = 630
    /\ ~driver.failing

\* The iteration took the if (isVisible) branch
Accepted(sc) == sc.pc = "centering" \/ sc.outcome = Resolved(NewWrapper)

C18_State ==
    scroll.pc = "relaxed" => 2 * scroll.elapsed > EffectiveTimeout(scroll.options)

C18_Step ==
    /\ PartlyVisibleAnswer =>
          IF 2 * scroll.elapsed <= EffectiveTimeout(scroll.options)
          THEN /\ scroll'.pc = "scrolling"
               /\ scroll'.scrolls = scroll.scrolls + 1
               /\ Len(scroll'.log) = 2
               /\ scroll'.log[2].method = "scroll"
          ELSE /\ scroll'.pc = "relaxed"
               /\ Len(scroll'.log) = 2
               /\ IsCall(scroll'.log[2], "isSubstantiallyVisible", 630)
    /\ PartlyVisibleRelaxedAnswer => Accepted(scroll') /\ scroll'.scrolls = scroll.scrolls

ScrollFailsAtBoundary ==
    /\ scroll.pc = "scrolling"
    /\ scroll'.pc # "scrolling"
    /\ driver.scrollError # Null
    /\ Includes(driver.scrollError.value, "scroll")

\* The driver answers the isVisible check that follows such an error
FallbackAnswers(answer) ==
    /\ scroll.pc = "fallback"
    /\ scroll'.pc # "fallback"
    /\ ~driver.failing
    /\ driver.visible = answer

\* The configured threshold is above 0 and the element's fraction is below it
ThresholdNotMet ==
    /\ scroll.options.visibilityThreshold > 0
    /\ driver.fraction < scroll.options.visibilityThreshold

C19_Step ==
    /\ ScrollFailsAtBoundary =>
          /\ scroll'.pc = "fallback"
          /\ scroll'.log = Append(scroll.log, Call("isVisible", ""))
          /\ scroll'.scrolls = scroll.scrolls
    /\ FallbackAnswers(TRUE) =>
          /\ scroll'.pc = "settled"
          /\ scroll'.outcome = Resolved(NewWrapper)
          /\ scroll'.log = scroll.log
    /\ FallbackAnswers(FALSE) =>
          /\ scroll'.pc = "settled"
          /\ scroll'.outcome.type = "rejected"
          /\ scroll'.log = scroll.log

\* C19: when driver.scroll fails with an error whose message mentions
\* "scroll", the scroll-search issues exactly one more driver call, an
\* isVisible check; a true answer resolves execute() with no further call,
\* whatever the configured threshold, and a false answer makes it throw.
C19_BoundaryFallback == [][C19_Step]_vars

C19_Witness ==
    /\ scroll.pc = "settled"
    /\ scroll.outcome = Resolved(NewWrapper)
    /\ ThresholdNotMet
    /\ Len(scroll.log) = 3
    /\ IsCall(scroll.log[1], "isSubstantiallyVisible", 900)
    /\ scroll.log[2].method = "scroll"
    /\ IsCall(scroll.log[3], "isVisible", "")
    /\ driver.scrollError = Str("cannot scroll further")

\* driver.scroll rejects
ScrollFails ==
    /\ scroll.pc = "scrolling"
    /\ scroll'.pc # "scrolling"
    /\ driver.scrollError # Null

C20_Step ==
    /\ ScrollFails =>
          /\ scroll'.scrolls = scroll.scrolls
          /\ scroll'.sleeps = scroll.sleeps
          /\ scroll'.elapsed = scroll.elapsed
          /\ IF Includes(driver.scrollError.value, "scroll")
             THEN /\ scroll'.pc = "fallback"
                  /\ scroll'.outcome = Pending
             ELSE /\ scroll'.pc = "settled"
                  /\ scroll'.outcome = Rejected(driver.scrollError.value)
                  /\ scroll'.log = scroll.log
    /\ scroll.pc = "fallback" /\ scroll' # scroll =>
          /\ scroll'.pc = "settled"
          /\ scroll'.outcome.type \in {"resolved", "rejected"}
          /\ scroll'.scrolls = scroll.scrolls
          /\ scroll'.sleeps = scroll.sleeps
          /\ scroll'.elapsed = scroll.elapsed
          /\ scroll'.log = scroll.log

\* C20: once driver.scroll has raised an error, execute() settles in the
\* same iteration without another scroll and without an interval sleep: an
\* error that is not a boundary error is re-raised with its own message at
\* once, and a boundary error is followed only by the fallback check, whose
\* answer resolves or rejects execute().
C20_NoRetryAfterScrollError == [][C20_Step]_vars

C20_Witness ==
    /\ scroll.pc = "settled"
    /\ scroll.outcome = Rejected("Connection lost")
    /\ scroll.scrolls = 2
    /\ scroll.sleeps = 1
    /\ scroll.log[Len(scroll.log)].method = "scroll"

\* C21: when the scroll-search has found the element and centers it, on a
\* driver that implements centerElementInViewport, execute() resolves
\* whether or not the centering call fails.
C21_CenteringNotFatal ==
    [][scroll.pc = "centering" /\ scroll'.pc # "centering" =>
          /\ scroll'.pc = "settled"
          /\ scroll'.outcome.type = "resolved"]_vars

\* C22: an error thrown by the visibility probe of an iteration (isVisible
\* or isSubstantiallyVisible, the relaxed check included) counts as "not
\* visible": the iteration goes on to scroll and execute() does not settle.
C22_ProbeErrorTolerated ==
    [][/\ scroll.pc \in {"checking", "relaxed"}
       /\ scroll'.pc # scroll.pc
       /\ driver.failing
       /\ driver.canScroll
       => /\ scroll'.pc = "scrolling"
          /\ scroll'.outcome = Pending]_vars

\* C23: a scroll-search that succeeds resolves to the wrapper on which
\* scrollTo() was called.
C23_ResolvesToOriginal ==
    scroll.created /\ scroll.outcome.type = "resolved" =>
        scroll.outcome.value = scroll.wrapper

\* The message names the direction, the scroll amount and the timeout of sc
NamesContext(sc, message) ==
    /\ Includes(message, sc.options.direction)
    /\ Includes(message, sc.options.scrollAmount)
    /\ Includes(message, ToString(EffectiveTimeout(sc.options)))

\* The loop is left because the timeout is exhausted
TimeoutExhausted ==
    /\ scroll.pc \in {"idle", "sleeping"}
    /\ scroll'.pc = "settled"

\* C24: the failure execute() raises when the timeout is exhausted, and the
\* one it raises when the boundary fallback finds the element not visible,
\* both name the scroll direction, the scroll amount and the timeout.
C24_FailuresNameContext ==
    [][TimeoutExhausted \/ FallbackAnswers(FALSE) =>
          /\ scroll'.outcome.type = "rejected"
          /\ NamesContext(scroll, scroll'.outcome.message)]_vars

---------------------------------------------------------------------------
(* Properties of the visibility-fraction estimator (SpecEstimator) *)

\* A call of isSubstantiallyVisible settles in this step
EstimateSettles == estimate' # estimate

\* What the basic visibility probe answers
BasicallyVisible == driver.visible /\ ~driver.failing

C25_Step ==
    EstimateSettles =>
        /\ ~BasicallyVisible => ~estimate'.result
        /\ BasicallyVisible /\ (driver.frame = Null \/ driver.attributesFail) =>
              estimate'.result

\* C25: isSubstantiallyVisible answers false whenever the basic visibility
\* probe answers false, and answers true at every threshold when the probe
\* answers true and the element's attributes give no frame.
C25_NoFrameFallback == [][C25_Step]_vars

C25_Witness ==
    /\ estimate.called
    /\ estimate.result
    /\ estimate.threshold = 1000
    /\ BasicallyVisible
    /\ driver.frame = Null
    /\ ~driver.attributesFail

\* The length of the overlap of the intervals [lo1, hi1] and [lo2, hi2]
Overlap(lo1, hi1, lo2, hi2) == Max(0, Min(hi1, hi2) - Max(lo1, lo2))

\* The area of the frame inside the safe viewport: the screen without the
\* top and bottom insets
IntersectionArea(frame) ==
    Overlap(frame.x, frame.x + frame.width, 0, 375)
        * Overlap(frame.y, frame.y + frame.height, 44, 812 - 34)

FrameArea(frame) == frame.width * frame.height

\* The estimator settles for a basically visible element with a frame
FrameEstimateSettles ==
    /\ EstimateSettles
    /\ BasicallyVisible
    /\ ~driver.attributesFail
    /\ driver.frame # Null

\* The claim as stated: the answer is the comparison of the ratio with the
\* threshold for every frame with an area and every threshold, and false
\* for a frame without a positive-area intersection.
C26_Original ==
    [][FrameEstimateSettles =>
          /\ FrameArea(driver.frame) > 0 =>
                (estimate'.result <=>
                    IntersectionArea(driver.frame) * 1000
                        >= estimate'.threshold * FrameArea(driver.frame))
          /\ IntersectionArea(driver.frame) = 0 => ~estimate'.result]_vars

\* C26: for a basically visible element with a frame, the estimator answers
\* true iff the frame's intersection with the safe viewport (375x812 less
\* 44 at the top and 34 at the bottom) has a positive area and
\* intersectionArea / frameArea >= threshold; a frame without a
\* positive-area intersection yields false for every threshold, 0 included.
C26_AreaRatio ==
    [][FrameEstimateSettles =>
          estimate'.result <=>
              /\ IntersectionArea(driver.frame) > 0
              /\ IntersectionArea(driver.frame) * 1000
                    >= estimate'.threshold * FrameArea(driver.frame)]_vars

C26_Witness ==
    /\ estimate.called
    /\ estimate.result
    /\ estimate.threshold = 500
    /\ BasicallyVisible
    /\ ~driver.attributesFail
    /\ driver.frame # Null
    /\ FrameArea(driver.frame) > 0
    /\ 2 * IntersectionArea(driver.frame) = FrameArea(driver.frame)

---------------------------------------------------------------------------
(* Properties of a builder that is inspected and reused (SpecReuse) *)

\* getConditionDescriptions() of builder b returns in this step
DescribeStep(b) == described'[b] # described[b]

\* C27: getConditionDescriptions() returns one description per condition of
\* the list, in insertion order, and changes nothing else: no driver call is
\* issued, the condition list and the state of a running or later execute()
\* are as they were.
C27_PureIntrospection ==
    [][\A b \in AllBuilders :
          DescribeStep(b) =>
              /\ Len(described'[b]) = Len(Conditions(b))
              /\ \A i \in DOMAIN Conditions(b) :
                    /\ Conditions(b)[i].serial = i
                    /\ described'[b][i] = GetDescription(Conditions(b)[i])
              /\ UNCHANGED <<driver, builders, pc, idx, elapsed, timer, calls, sleeps,
                             threw, slow, results, outcome, trace, caught, scroll,
                             estimate, heap, config, env, creation, iter, keyboard>>]_vars

C27_Witness ==
    /\ KindsOf(1) = <<"Custom", "Visible">>
    /\ described[1] = <<"Wait for custom condition to be met",
                        "Wait for element to be visible">>
    /\ pc[1] = "settled"
    /\ outcome[1] = Resolved(builders[1].wrapper)

\* clearConditions() of builder b returns in this step: nothing else
\* shortens the list
ClearStep(b) == Len(Conditions(b)') < Len(Conditions(b))

\* A predicate call of builder b settles in this step
PollStep(b) == pc[b] = "probing" /\ pc'[b] # "probing"

C28_State ==
    \A b \in AllBuilders :
        /\ pc[b] # "idle" => Len(calls[b]) = Len(Conditions(b))
        /\ pc[b] = "settled" /\ Len(results[b]) >= 1 /\ AllTrue(b) =>
              outcome[b] = Resolved(builders[b].wrapper)

C28_Step ==
    \A b \in AllBuilders :
        /\ ClearStep(b) =>
              /\ builders'[b] = [builders[b] EXCEPT !.conditions = <<>>]
              /\ builders'[b].wrapper \in Wrappers
              /\ UNCHANGED <<driver, pc, idx, elapsed, timer, calls, sleeps, threw, slow,
                             results, outcome, trace, caught, scroll, estimate,
                             described, heap, config, env, creation, iter, keyboard>>
        /\ builders[b].created => builders'[b].wrapper = builders[b].wrapper
        /\ PollStep(b) => trace'[b] = ProbeCalls(Conditions(b)[idx[b]], driver)

\* C28: clearConditions() empties the condition list and leaves the
\* builder's wrapper, the driver and everything else as they were; an
\* execute() after it polls only conditions of the refilled list and, when
\* all of them are met, resolves to the wrapper the builder came from.
C28_ClearKeepsBuilder == []C28_State /\ [][C28_Step]_vars

C28_Witness ==
    /\ described[1] = <<"Wait for element to be visible", "Wait for element to be visible">>
    /\ KindsOf(1) = <<"Enabled">>
    /\ pc[1] = "settled"
    /\ calls[1] = <<1>>
    /\ results[1] = <<"true">>
    /\ builders[1].wrapper = "w2"
    /\ outcome[1] = Resolved("w2")

---------------------------------------------------------------------------
(* Properties of the builders of one wrapper (SpecFresh) *)

\* The references the builders hold
HeldBy(h) ==
    {h.waits[b].conditions : b \in DOMAIN h.waits}
        \cup {h.scrolls[b].options : b \in DOMAIN h.scrolls}

\* The builders that see a change through their reference in this step
ChangedWaits ==
    {b \in DOMAIN heap.waits :
        heap'.objects[heap'.waits[b].conditions] # heap.objects[heap.waits[b].conditions]}

ChangedScrolls ==
    {b \in DOMAIN heap.scrolls :
        heap'.objects[heap'.scrolls[b].options] # heap.objects[heap.scrolls[b].options]}

C29_State ==
    /\ Cardinality(HeldBy(heap)) = Len(heap.waits) + Len(heap.scrolls)
    /\ HeldBy(heap) \cap heap.literals = {}

C29_Step ==
    /\ Cardinality(ChangedWaits) + Cardinality(ChangedScrolls) <= 1
    /\ \A r \in heap.literals : heap'.objects[r] = heap.objects[r]
    /\ Len(heap'.waits) > Len(heap.waits) =>
          /\ heap'.objects[heap'.waits[Len(heap'.waits)].conditions] = <<>>
          /\ ChangedWaits = {} /\ ChangedScrolls = {}
    /\ Len(heap'.scrolls) > Len(heap.scrolls) =>
          /\ ChangedWaits = {} /\ ChangedScrolls = {}

\* C29: every wait() and scrollTo() on a wrapper gives a builder with an
\* accumulator of its own: no two builders hold the same array or options
\* object, none holds the caller's options object, a new WaitBuilder starts
\* empty, and a push, clear or setter through one builder never changes
\* what another builder, or the caller's options object, holds.
C29_FreshAccumulators == []C29_State /\ [][C29_Step]_vars

C29_Witness ==
    /\ Len(heap.waits) = 2
    /\ Len(heap.scrolls) = 2
    /\ \A i \in 1..2 : heap.waits[i].wrapper = "w1" /\ heap.scrolls[i].wrapper = "w1"
    /\ Len(heap.objects[heap.waits[1].conditions]) = 2
    /\ heap.objects[heap.waits[2].conditions] = <<>>
    /\ heap.objects[heap.scrolls[1].options].timeout = 3
    /\ heap.objects[heap.scrolls[2].options].timeout = 4
    /\ heap.literals # {}

---------------------------------------------------------------------------
(* Properties of the static configuration (SpecConfig)                     *)

\* A step that is one call of configureFromEnvironment
ReadsEnvironment == env'.reads = env.reads + 1

\* The spellings of a framework name that the environment may hold
Spellings(name) ==
    IF name = "detox" THEN {"detox", "DETOX", "Detox"}
    ELSE {"appium", "APPIUM", "aPPiuM"}

\* E2E_FRAMEWORK holds the name in some letter case
Holds(name) ==
    /\ env.E2E_FRAMEWORK # Null
    /\ env.E2E_FRAMEWORK.value \in Spellings(name)

C30_Step ==
    ReadsEnvironment =>
        /\ Holds("detox") => config' = [config EXCEPT !.framework = "detox"]
        /\ Holds("appium") => config' = [config EXCEPT !.framework = "appium"]
        /\ ~Holds("detox") /\ ~Holds("appium") => config' = config

\* C30: a call of configureFromEnvironment returns normally; it leaves
\* the framework and the stored drivers as they were when E2E_FRAMEWORK is
\* unset or holds an unrecognized value, and when the variable holds
\* "detox" or "appium" in any letter case it sets the framework to that
\* value and keeps the stored drivers.
C30_EnvironmentConfiguration == [][C30_Step]_vars

\* configureFromEnvironment has run twice, the last time on an upper-case
\* name, with a driver stored by setFramework in the configuration
C30_Witness ==
    /\ env.reads = MaxReads
    /\ env.E2E_FRAMEWORK = Str("DETOX")
    /\ env.frameworkEnv = Str("detox")
    /\ config.framework = "detox"
    /\ config.appiumDriver = Handle("driverB")

---------------------------------------------------------------------------
(* Properties of the factory (SpecCreate)                                  *)

\* A step that is one call of create
CreateStep == creation' # creation

\* The framework a call of create is about: the override if given, else the
\* configured one
Effective(c, options) ==
    IF options.framework # "" THEN options.framework ELSE c.framework

C31_Step ==
    CreateStep =>
        /\ config' = config
        /\ creation'.outcome.type = "created" /\ creation'.options.framework # ""
              => creation'.outcome.framework = creation'.options.framework
        /\ creation'.outcome.type = "created" /\ creation'.options.framework = ""
              => creation'.outcome.framework = config.framework

\* C31: a call of create with a per-call framework or driver override that
\* returns a wrapper returns one for the overriding framework, and every
\* call of create leaves the process-wide configuration as it was, so that
\* a later create without options still yields a wrapper for the
\* configured framework.
C31_OverrideLeavesConfiguration == [][C31_Step]_vars

\* create was called with an Appium override and its own driver while the
\* configuration names Detox, and returned an Appium wrapper
C31_Witness ==
    /\ creation.called
    /\ creation.options.framework = "appium"
    /\ creation.options.driver = Handle("driverB")
    /\ creation.outcome.type = "created"
    /\ creation.outcome.framework = "appium"
    /\ config.framework = "detox"
    /\ config.appiumDriver = Null

\* The text a thrown error starts with
StartsWith(message, prefix) ==
    /\ Len(message) >= Len(prefix)
    /\ SubSeq(message, 1, Len(prefix)) = prefix

\* Neither the options nor the configuration hold an Appium driver
NoAppiumDriver(c, options) == options.driver = Null /\ c.appiumDriver = Null

C32_Step ==
    CreateStep =>
        LET options == creation'.options
            framework == Effective(config, options)
            result == creation'.outcome
        IN  /\ result.type \in {"created", "thrown"}
            /\ result.type = "created" => result.framework = framework
            /\ result.type = "thrown" <=>
                  \/ framework = "appium" /\ NoAppiumDriver(config, options)
                  \/ framework \notin {"detox", "appium"}
            /\ framework = "appium" /\ NoAppiumDriver(config, options)
                  => StartsWith(result.message, "Appium driver must be provided")
            /\ framework \notin {"detox", "appium"}
                  => StartsWith(result.message, "Unsupported framework")

\* C32: after any configure, setFramework and configureFromEnvironment
\* calls, create either returns a wrapper whose driver reports the
\* effective framework or throws; it throws "Appium driver must be
\* provided..." exactly when the effective framework is Appium and neither
\* the options nor the configuration hold a driver, and "Unsupported
\* framework" exactly when the effective framework is neither Detox nor
\* Appium.
C32_CreateReturnsOrThrows == [][C32_Step]_vars

\* The environment switched the configuration to Appium, no driver is
\* stored, and create without options threw the missing-driver error
C32_Witness ==
    /\ env.reads > 0
    /\ env.frameworkEnv = Str("appium")
    /\ config.framework = "appium"
    /\ config.appiumDriver = Null
    /\ creation.called
    /\ creation.options = NoCreateOptions
    /\ creation.outcome = Thrown(AppiumDriverMissingMessage)

---------------------------------------------------------------------------
(* Order of the steps of the scroll-search (SpecScroll)                    *)

\* The methods that check visibility
CheckMethods == {"isVisible", "isSubstantiallyVisible"}

\* The position of the scroll call in the current iteration's log, or 0
ScrollPosition ==
    IF LoggedCalls("scroll") = {} THEN 0 ELSE CHOOSE i \in LoggedCalls("scroll") : TRUE

\* The step issues driver.scroll
IssuesScroll == scroll'.pc = "scrolling" /\ scroll.pc # "scrolling"

\* The step starts the interval sleep
StartsSleep == scroll'.pc = "sleeping" /\ scroll.pc # "sleeping"

\* The answer of the visibility check that is in flight
CheckAnswer ==
    IF scroll.pc = "relaxed"
    THEN driver.fraction >= LowerThreshold(scroll.options.visibilityThreshold)
    ELSE IF scroll.log[1].method = "isSubstantiallyVisible"
    THEN driver.fraction >= scroll.options.visibilityThreshold
    ELSE driver.visible

C33_State ==
    InIteration =>
        /\ scroll.log[1].method \in CheckMethods
        /\ Cardinality(LoggedCalls("scroll")) <= 1
        /\ ScrollPosition > 0 =>
              /\ \A i \in 1..(ScrollPosition - 1) : scroll.log[i].method \in CheckMethods
              /\ LoggedCalls("centerElementInViewport") = {}
        /\ scroll.pc = "sleeping" => ScrollPosition = Len(scroll.log)
        /\ scroll.sleeps <= scroll.scrolls
        /\ scroll.scrolls <= scroll.sleeps + 1

C33_Step ==
    /\ IssuesScroll =>
          /\ scroll.pc \in {"checking", "relaxed"}
          /\ ~CheckAnswer
          /\ ~Accepted(scroll)
    /\ StartsSleep =>
          /\ scroll.pc = "scrolling"
          /\ scroll'.sleeps = scroll.sleeps + 1
          /\ scroll'.timer = EffectiveInterval(scroll.options)
    /\ Accepted(scroll) => ~IssuesScroll /\ ~StartsSleep

\* C33: every iteration of the scroll-search starts with a visibility
\* check, then issues at most one driver.scroll call, then sleeps one
\* interval; driver.scroll is issued only right after a visibility check
\* (the relaxed one included) that answered false, the sleep only right
\* after a scroll, and nothing is scrolled once the element is accepted.
C33_CheckScrollSleep == []C33_State /\ [][C33_Step]_vars

\* The second iteration's check failed, its relaxed retry failed too, the
\* scroll was issued after them and the search now sleeps
C33_Witness ==
    /\ scroll.pc = "sleeping"
    /\ scroll.sleeps = 2
    /\ scroll.scrolls = 2
    /\ Len(scroll.log) = 3
    /\ scroll.log[2].method = "isSubstantiallyVisible"
    /\ scroll.log[3].method = "scroll"

---------------------------------------------------------------------------
(* The budget of the scroll-search (SpecTimeouts)                          *)

\* The step enters a new iteration: the loop guard held at its head
StartsIteration == scroll.pc \in {"idle", "sleeping"} /\ scroll'.pc = "checking"

\* C34: the scroll-search enters an iteration, and so issues a visibility
\* check and a scroll, only while the elapsed time is below the configured
\* timeout, for every configured timeout from 0 up, and when it throws the
\* timeout failure the elapsed time has reached the configured timeout by
\* less than one interval and one check.
C34_LoopsOnlyBeforeTimeout ==
    [][/\ StartsIteration => scroll'.elapsed < scroll'.options.timeout
       /\ TimeoutExhausted =>
             scroll'.elapsed < scroll.options.timeout
                                  + EffectiveInterval(scroll.options) + MaxProbeDur + 1]_vars

---------------------------------------------------------------------------
(* The retries option (SpecRetries)                                        *)

\* Both builders hold their condition: the two were made with options that
\* differ in WaitOptions.retries and in nothing else
DifferInRetriesOnly ==
    /\ \A b \in AllBuilders : Len(builders[b].conditions) = 1
    /\ builders[1].conditions[1].kind = builders[2].conditions[1].kind
    /\ builders[1].conditions[1].options.retries
          # builders[2].conditions[1].options.retries

\* The budget the loop of builder b's condition runs on
Budget(b) ==
    [timeout |-> builders[b].conditions[1].options.timeout,
     interval |-> builders[b].conditions[1].options.interval]

\* Both calls have polled and sleep, or both have settled
SamePoint ==
    \/ \A b \in AllBuilders : pc[b] = "settled"
    \/ \A b \in AllBuilders : pc[b] = "sleeping" /\ timer[b] > 0

---------------------------------------------------------------------------
(* Independence of interleaved chains (SpecInterleave)                     *)

\* The conditions of chain b that the fixed backend does not satisfy
Unmet(b) ==
    {i \in 1..Len(builders[b].conditions) :
        ProbeOutcome(builders[b].conditions[i], driver) # "true"}

\* What execute() of chain b ends with when it runs alone on the fixed
\* backend: the wrapper, or the failure naming its first unmet condition
AloneOutcome(b) ==
    IF Len(builders[b].conditions) = 0 THEN Rejected(NoConditionsMessage)
    ELSE IF Unmet(b) = {} THEN Resolved(builders[b].wrapper)
    ELSE LET i == CHOOSE j \in Unmet(b) : \A k \in Unmet(b) : j <= k
         IN  Rejected(ConditionFailedMessage(GetDescription(builders[b].conditions[i])))

\* Chain b is inside execute(), evaluating its condition idx[b]
Evaluating(b) == pc[b] \in {"probing", "sleeping", "returned"}

C36_State ==
    \A b \in AllBuilders :
        /\ pc[b] = "settled" => outcome[b] = AloneOutcome(b)
        /\ Evaluating(b) =>
              /\ \A j \in 1..(idx[b] - 1) : results[b][j] = "true" /\ calls[b][j] = 1
              /\ \A j \in (idx[b] + 1)..Len(builders[b].conditions) : calls[b][j] = 0

\* C36: two chains whose execute() calls interleave at their awaits are
\* independent: under fixed driver answers each evaluates its own
\* conditions in its own insertion order, and ends with the outcome it has
\* when it runs alone, the wrapper it was made from or the failure naming
\* its first unmet condition.
C36_InterleavedChainsIndependent == []C36_State

\* Both calls are suspended in their polling loops at once, chain 1 of
\* wrapper w1 on its second condition and chain 2 of wrapper w2 on its
\* first
C36_Witness ==
    /\ builders[1].wrapper = "w1"
    /\ builders[2].wrapper = "w2"
    /\ pc[1] = "sleeping"
    /\ pc[2] = "sleeping"
    /\ idx[1] = 2
    /\ idx[2] = 1
    /\ elapsed[1] = 1
    /\ elapsed[2] = 1

---------------------------------------------------------------------------
(* Termination of a condition (SpecLive)                                   *)

\* The condition's execute() is polling or sleeping
InsideCondition == pc[1] \in {"probing", "sleeping"}

\* The condition's execute() has returned true or false
ConditionReturned == pc[1] = "returned" /\ results[1][1] \in {"true", "false"}

\* A condition returns false only when its whole timeout is used up
C37_State ==
    pc[1] = "returned" =>
        /\ results[1][1] \in {"true", "false"}
        /\ results[1][1] = "false" =>
              elapsed[1] >= builders[1].conditions[1].options.timeout

---------------------------------------------------------------------------
(* What one execute() evaluates (SpecRace)                                 *)

\* C38: the conditions one execute() call evaluates are those the builder
\* held when execute() was called: the condition under evaluation is the
\* one at that position then, even when another task has appended a
\* condition or cleared the builder during an await, and a call that
\* resolves has evaluated every one of them and no other.
C38_EvaluatesConditionsAtCall ==
    /\ Evaluating(1) =>
          /\ idx[1] <= Len(iter[1].atCall)
          /\ Iterated(1)[idx[1]] = iter[1].atCall[idx[1]]
    /\ pc[1] = "settled" /\ outcome[1].type = "resolved" =>
          idx[1] = Len(iter[1].atCall)

---------------------------------------------------------------------------
(* The relaxed threshold (SpecRelax); thresholds in thousandths            *)

\* The relaxed retry of the current iteration is in flight
RelaxedRetry == scroll.pc = "relaxed"

\* The threshold the relaxed retry was issued with
RelaxedThreshold == scroll.log[Len(scroll.log)].name

\* The relaxed threshold is at least 0.5 and at least 70% of the configured
\* one
BoundedConcession ==
    /\ RelaxedThreshold >= 500
    /\ 10 * RelaxedThreshold >= 7 * scroll.options.visibilityThreshold

---------------------------------------------------------------------------
(* Keyboard dismissal (SpecKeyboard)                                       *)

\* C40: dismissKeyboard never throws, and when it returns after it has
\* disabled the device's synchronization, the synchronization is enabled
\* again, also when the device tap or the fallback tap failed.
C40_SynchronizationRestored ==
    (keyboard.pc = "returned" /\ keyboard.outcome # NotStarted) =>
        /\ keyboard.outcome.type = "resolved"
        /\ keyboard.disabled => keyboard.synchronized

====
